---------------------------- MODULE Spec2Model ----------------------------
(***************************************************************************)
(* A model of the private_share node: the content-addressed store          *)
(* (index_dir / store_dir), the ingest paths (AddFile, UploadFile), the    *)
(* chunked file-sync engine and the node event loop that owns them.        *)
(*                                                                         *)
(* Files are byte sequences over 1..2; an unwritten byte of a sparse or    *)
(* partially written file reads as 0.  index_dir entries are named by the  *)
(* hash of their content.                                                  *)
(***************************************************************************)
EXTENDS Integers, Sequences, FiniteSets, TLC

(***************************************************************************)
(* Bounds of the model.                                                    *)
(***************************************************************************)
\* chunk length of a FileRequest, in bytes (8 MiB in the source, scaled)
MAX_FILE_CHUNK_SIZE == 2
\* chunk requests dispatched per sync round (16 in the source, scaled)
MAX_CONCURRENT_SYNC_TASKS == 1
\* number of detached upload tasks that may exist at once
MaxUploads == 2
\* inputs from outside (commands, gossip messages, inbound requests) in one run
MaxInputs == 2
\* largest payload of a frame FileCodec reads, in bytes (16 MiB in the
\* source, scaled)
MAX_CHUNK_SIZE == 12
\* the dials the swarm holds unresolved for one peer are followed up to here
MaxDials == 2
\* FileCache: its capacity, the timeout of the sweep in seconds, how far the
\* clock runs and how many opener invocations are followed
MAX_FILE_COUNT == 2
FILE_CACHE_TIMEOUT == 2
MaxClock == 3
MaxOpens == 3

Names == {"a", "b"}
Peers == {"p1", "p2"}
Contents == {<<>>, <<1, 2, 1>>}

NoFile == <<-1>>      \* the path does not exist
NoLink == -1          \* store_dir has no entry of that name
NoHash == -1          \* UploadFile without a hash

(***************************************************************************)
(* Sha256 + hex::encode_upper: an injective naming of byte sequences.      *)
(***************************************************************************)
RECURSIVE Hash(_)
Hash(b) == IF b = <<>> THEN 1 ELSE 3 * Hash(SubSeq(b, 1, Len(b) - 1)) + b[Len(b)]

IndexHashes == {Hash(c) : c \in Contents}

VARIABLES
    index_dir,          \* [IndexHashes -> content | NoFile]: index_dir/<HASH>
    store_dir,          \* [Names -> target | NoLink]: store_dir/<name> -> index_dir/<target>
    tmp_exists,         \* index_dir/.tmp exists
    tmp_sync,           \* [IndexHashes -> content | NoFile]: index_dir/.tmp/<HASH>
    add_file,           \* the AddFile command being handled, and its reply
    uploads,            \* [1..MaxUploads -> task]: detached upload_file tasks
    run_result,         \* "running", or the error Node::run returned
    inputs_left,        \* inputs the environment may still send
    peer_stores,        \* [known peers -> PeerNodeStore]
    sync_file_task,     \* the sync task of Node::run: its state and its map
    syncing_files,      \* carry-over of Node::run (<<>> is None)
    futs,               \* the chunk tasks of the round, by request id
    file_get_requests,  \* request ids that have a one-shot registered
    dispatched,         \* history: <<hash, offset>> requested in this cohort
    sync_log,           \* the last info! line of the sync branch of the loop
    served,             \* the answer to the last inbound FileRequest
    list_reply,         \* the reply to the last ListFiles command
    config,             \* ConfigManager.config.peer_addrs, the in-memory list
    config_yaml,        \* the file config.yaml
    config_yaml_tmp,    \* the file config.yaml.tmp, or NoConfigFile
    peer_addr_receiver, \* the dial delay queue: <<[addr, delay], ...>>
    peer_addr_connecting, \* [Peers -> address being dialled | NoAddr]
    gossip_explicit,    \* the explicit peers of the gossip behaviour
    request_respond,    \* <<peer, addr>> known to request-response routing
    disconnect_requests, \* history: peers given to swarm.disconnect_peer_id
    established,        \* <<peer, addr>>: the connections the swarm holds
    connected_peer,     \* Node.connected_peer: <<peer, addr>> pairs
    peers_cmd,          \* the AddPeers / RemovePeers command and its reply
    list_peers_reply,   \* the reply to the last ListPeers command
    codec,              \* a FileCodec stream: the message, its frame, the read
    announce,           \* the last refresh tick and the FileMessage it published
    dials,              \* [Peers -> dials the swarm accepted and has not resolved]
    cache_files,        \* FileCache.files, most recently used first
    clock,              \* Instant::now(), in seconds
    cache_call,         \* the last FileCache call and what it returned
    discover,           \* the last DiscoverMessage given to gossip.publish
    cmd_reply           \* the last GetBandwidth / GetFile command and what it sent

fsvars == <<index_dir, store_dir, tmp_exists, tmp_sync>>
syncvars == <<peer_stores, sync_file_task, syncing_files, futs, file_get_requests,
              dispatched, sync_log>>
\* the state that only the commands of the later sections read or write
peervars == <<config, config_yaml, config_yaml_tmp, peer_addr_receiver,
              peer_addr_connecting, gossip_explicit, request_respond,
              disconnect_requests, established, connected_peer, peers_cmd,
              list_peers_reply>>
cachevars == <<cache_files, clock, cache_call>>
latervars == <<announce, dials, cachevars, discover, cmd_reply>>
cmdvars == <<list_reply, peervars, codec, latervars>>
vars == <<index_dir, store_dir, tmp_exists, tmp_sync, add_file, uploads,
          run_result, inputs_left, peer_stores, sync_file_task, syncing_files,
          futs, file_get_requests, dispatched, sync_log, served, list_reply,
          peervars, codec, latervars>>

NoListReply == [kind |-> "none", include_peer |-> FALSE, details |-> <<>>]
\* no refresh tick has been handled
NoAnnounce == [ticks |-> 0, publish |-> "none", file_list |-> <<>>]
\* no message has been written to the stream
IdleCodec == [pc |-> "idle", msg |-> [type |-> "none"], frame |-> <<>>,
              read |-> [kind |-> "none"]]

\* a Multiaddr is named by its text; "a0" has no /p2p/<peer id> component
Addrs == {"a0", "a1", "a2"}
NoAddr == "none"
NoPeer == "none"
\* PeerId::try_from_multiaddr
PeerIdOf(addr) == CASE addr = "a1" -> "p1" [] addr = "a2" -> "p2" [] OTHER -> NoPeer

\* a configuration file: the peer list it holds, and whether all of its text
\* is there (a write that fails may leave a prefix of the text)
ConfigFile(peer_addrs) == [peer_addrs |-> peer_addrs, complete |-> TRUE]
NoConfigFile == [peer_addrs |-> <<>>, complete |-> FALSE]
\* seq counts the AddPeers / RemovePeers commands dequeued so far
IdlePeersCmd == [pc |-> "idle", kind |-> "none", peers |-> <<>>,
                 new_config |-> <<>>, result |-> "none", seq |-> 0]
\* addr_queue.insert(peer_addr, 0 s) for each address
Enqueue(queue, addrs, delay) ==
    queue \o [i \in 1..Len(addrs) |-> [addr |-> addrs[i], delay |-> delay]]

\* run(): the configuration is loaded and every configured peer is queued
\* no FileCache call was made yet; `opens` counts the opener invocations
NoCacheCall == [op |-> "none", hash |-> 0, result |-> "none", file |-> 0,
                opener_invoked |-> 0, evicted |-> 0, opens |-> 0]
\* no DiscoverMessage was given to gossip.publish yet
NoDiscover == [publish |-> "none", peers |-> <<>>]
\* no GetBandwidth or GetFile command was handled yet; `sends` lists what
\* the handler gave to result_sender.send, in order
NoCmdReply == [cmd |-> "none", sends |-> <<>>]
InitCmd(peer_addrs) ==
    /\ list_reply = NoListReply
    /\ config = peer_addrs
    /\ config_yaml = ConfigFile(peer_addrs)
    /\ config_yaml_tmp = NoConfigFile
    /\ peer_addr_receiver = Enqueue(<<>>, peer_addrs, 0)
    /\ peer_addr_connecting = [p \in Peers |-> NoAddr]
    /\ gossip_explicit = {}
    /\ request_respond = {}
    /\ disconnect_requests = {}
    /\ established = {}
    /\ connected_peer = {}
    /\ peers_cmd = IdlePeersCmd
    /\ list_peers_reply = <<"none", {}>>
    /\ codec = IdleCodec
    /\ announce = NoAnnounce
    /\ dials = [p \in Peers |-> 0]
    /\ cache_files = <<>>
    /\ clock = 0
    /\ cache_call = NoCacheCall
    /\ discover = NoDiscover
    /\ cmd_reply = NoCmdReply

IdleAdd == [pc |-> "idle", filename |-> "a", content |-> <<>>, orphaned |-> FALSE,
            result |-> "none"]
IdleUpload == [pc |-> "idle", filename |-> "a", content |-> <<>>, tmp |-> NoFile,
               result |-> "none"]

\* fs::metadata(index_dir.join(hash)) succeeds
IndexPathExists(hash) == index_dir[hash] # NoFile

\* LoopIdle as it would be if the select! were also entered with carry-over
\* entries pending
LoopIdleWithCarryOver ==
    /\ run_result = "running"
    /\ add_file.pc # "copy"
    /\ peers_cmd.pc # "rename"

\* the loop is in select!: no handler is suspended in an await
LoopIdle ==
    /\ run_result = "running"
    /\ add_file.pc # "copy"
    /\ syncing_files = <<>>
    /\ peers_cmd.pc # "rename"

(***************************************************************************)
(* AddFile: hash the file, copy it to index_dir/<HASH> when absent, then   *)
(* replace store_dir/<basename> by a symlink.                              *)
(***************************************************************************)
\* remove_file(store_file_path) then symlink(index_path, store_file_path)
AddFileLink(n, h) == [store_dir EXCEPT ![n] = h]

AddFileBegin(n, b) ==
    /\ LoopIdle
    /\ add_file.pc = "idle"
    /\ inputs_left > 0
    /\ inputs_left' = inputs_left - 1
    /\ IF b = NoFile
       THEN \* File::open failed: reply Err
            /\ add_file' = [IdleAdd EXCEPT !.pc = "done", !.filename = n,
                                           !.content = b, !.result = "err"]
            /\ UNCHANGED fsvars
       ELSE IF index_dir[Hash(b)] = NoFile
       THEN \* create_new(index_path); io::copy is still to come
            /\ index_dir' = [index_dir EXCEPT ![Hash(b)] = <<>>]
            /\ add_file' = [IdleAdd EXCEPT !.pc = "copy", !.filename = n,
                                           !.content = b]
            /\ UNCHANGED <<store_dir, tmp_exists, tmp_sync>>
       ELSE \* the index file exists: only the symlink is made
            /\ store_dir' = AddFileLink(n, Hash(b))
            /\ add_file' = [IdleAdd EXCEPT !.pc = "done", !.filename = n,
                                           !.content = b, !.result = "ok"]
            /\ UNCHANGED <<index_dir, tmp_exists, tmp_sync>>
    /\ UNCHANGED <<uploads, run_result, syncvars, served, cmdvars>>

\* io::copy(file, index_file), then the symlink and the reply
AddFileCopy ==
    /\ run_result = "running"
    /\ add_file.pc = "copy"
    /\ index_dir' = IF add_file.orphaned THEN index_dir
                    ELSE [index_dir EXCEPT ![Hash(add_file.content)] = add_file.content]
    /\ store_dir' = AddFileLink(add_file.filename, Hash(add_file.content))
    /\ add_file' = [add_file EXCEPT !.pc = "done", !.result = "ok"]
    /\ UNCHANGED <<tmp_exists, tmp_sync, uploads, run_result, inputs_left, syncvars, served, cmdvars>>

\* the caller takes the result off the one-shot
AddFileReceive ==
    /\ run_result = "running"
    /\ add_file.pc = "done"
    /\ add_file' = IdleAdd
    /\ UNCHANGED <<fsvars, uploads, run_result, inputs_left, syncvars, served, cmdvars>>

(***************************************************************************)
(* rename(tmp, index_dir/<h>) replaces the directory entry: a descriptor   *)
(* AddFile still holds on the old file no longer names index_dir/<h>.      *)
(***************************************************************************)
OrphanAddFile(h) ==
    IF add_file.pc = "copy" /\ Hash(add_file.content) = h
    THEN [add_file EXCEPT !.orphaned = TRUE]
    ELSE add_file

(***************************************************************************)
(* UploadFile: with a hash whose index file exists only the symlink is     *)
(* made; otherwise a detached task runs upload_file.                       *)
(***************************************************************************)
FreeSlots == {i \in 1..MaxUploads : uploads[i].pc = "idle"}
FirstFree == CHOOSE i \in FreeSlots : \A j \in FreeSlots : i <= j

\* fs::symlink(index_path, store_path) where AlreadyExists is tolerated
SymlinkTolerant(n, target) ==
    IF store_dir[n] = NoLink THEN [store_dir EXCEPT ![n] = target] ELSE store_dir

UploadFile(n, hash, b) ==
    /\ LoopIdle
    /\ FreeSlots # {}
    /\ inputs_left > 0
    /\ inputs_left' = inputs_left - 1
    /\ IF hash # NoHash /\ IndexPathExists(hash)
       THEN /\ store_dir' = SymlinkTolerant(n, hash)
            /\ uploads' = [uploads EXCEPT ![FirstFree] =
                   [IdleUpload EXCEPT !.pc = "done", !.filename = n, !.content = b,
                                      !.result = "ok_linked"]]
       ELSE /\ uploads' = [uploads EXCEPT ![FirstFree] =
                   [IdleUpload EXCEPT !.pc = "write", !.filename = n, !.content = b]]
            /\ UNCHANGED store_dir
    /\ UNCHANGED <<index_dir, tmp_exists, tmp_sync, add_file, run_result, syncvars, served, cmdvars>>

\* create_temp_dir, create_new(.tmp/.upload.<rand16>), write the stream
UploadWrite(i) ==
    /\ run_result = "running"
    /\ uploads[i].pc = "write"
    /\ tmp_exists' = TRUE
    /\ uploads' = [uploads EXCEPT ![i].pc = "rename", ![i].tmp = uploads[i].content]
    /\ UNCHANGED <<index_dir, store_dir, tmp_sync, add_file, run_result, inputs_left, syncvars, served, cmdvars>>

\* fs::rename(tmp_path, index_dir/<hash_result>)
UploadRename(i) ==
    /\ run_result = "running"
    /\ uploads[i].pc = "rename"
    /\ IF uploads[i].tmp = NoFile
       THEN \* NotFound is not tolerated: reply Err
            /\ uploads' = [uploads EXCEPT ![i].pc = "done", ![i].result = "err"]
            /\ UNCHANGED <<index_dir, add_file>>
       ELSE /\ index_dir' = [index_dir EXCEPT ![Hash(uploads[i].tmp)] = uploads[i].tmp]
            /\ add_file' = OrphanAddFile(Hash(uploads[i].tmp))
            /\ uploads' = [uploads EXCEPT ![i].pc = "symlink", ![i].tmp = NoFile]
    /\ UNCHANGED <<store_dir, tmp_exists, tmp_sync, run_result, inputs_left, syncvars, served, cmdvars>>

\* fs::symlink(index_path, store_dir/<filename>), AlreadyExists tolerated; reply Ok
UploadSymlink(i) ==
    /\ run_result = "running"
    /\ uploads[i].pc = "symlink"
    /\ store_dir' = SymlinkTolerant(uploads[i].filename, Hash(uploads[i].content))
    /\ uploads' = [uploads EXCEPT ![i].pc = "done", ![i].result = "ok"]
    /\ UNCHANGED <<index_dir, tmp_exists, tmp_sync, add_file, run_result, inputs_left, syncvars, served, cmdvars>>

UploadReceive(i) ==
    /\ run_result = "running"
    /\ uploads[i].pc = "done"
    /\ uploads' = [uploads EXCEPT ![i] = IdleUpload]
    /\ UNCHANGED <<fsvars, add_file, run_result, inputs_left, syncvars, served, cmdvars>>

(***************************************************************************)
(* Helpers on sequences, sets and positional file I/O.                     *)
(***************************************************************************)
Min(x, y) == IF x < y THEN x ELSE y
Max(x, y) == IF x > y THEN x ELSE y
Range(f) == {f[i] : i \in DOMAIN f}
\* the orders in which a HashMap may iterate over the keys S
Perms(S) == {s \in [1..Cardinality(S) -> S] : \A x \in S : \E i \in DOMAIN s : s[i] = x}

\* AsyncFileExt::write_at_all: data is written at offset, a gap reads as 0
WriteAt(f, data, offset) ==
    IF data = <<>> THEN f
    ELSE [i \in 1..Max(Len(f), offset + Len(data)) |->
             IF i > offset /\ i <= offset + Len(data) THEN data[i - offset]
             ELSE IF i <= Len(f) THEN f[i] ELSE 0]

\* AsyncFileExt::read_at: up to length bytes from offset
ReadAt(f, offset, length) == SubSeq(f, offset + 1, Min(Len(f), offset + length))

(***************************************************************************)
(* Gossip on the file-share topic: the peer's store is replaced by the     *)
(* snapshot; for a filename named twice the first hash wins.               *)
(***************************************************************************)
File(n, c) == [filename |-> n, hash |-> Hash(c), file_size |-> Len(c)]
FileLists ==
    { <<>>,
      <<File("a", <<1, 2, 1>>)>>,
      <<File("a", <<1, 2, 1>>), File("b", <<>>)>>,
      <<File("b", <<1, 2, 1>>), File("b", <<>>)>> }

FirstIndex(list, n) == CHOOSE i \in DOMAIN list :
    /\ list[i].filename = n
    /\ \A j \in DOMAIN list : list[j].filename = n => i <= j
LastIndex(list, h) == CHOOSE i \in DOMAIN list :
    /\ list[i].hash = h
    /\ \A j \in DOMAIN list : list[j].hash = h => j <= i

PeerNodeStoreLastWins(list) ==
    [files |-> [n \in {list[i].filename : i \in DOMAIN list} |->
                   list[CHOOSE i \in DOMAIN list :
                            /\ list[i].filename = n
                            /\ \A j \in DOMAIN list :
                                   list[j].filename = n => j <= i].hash],
     index |-> [h \in {list[i].hash : i \in DOMAIN list} |->
                   list[LastIndex(list, h)].file_size]]

\* PeerNodeStore as it would be if the size of an empty file were not
\* inserted into the index
PeerNodeStoreSkipsEmpty(list) ==
    [files |-> [n \in {list[i].filename : i \in DOMAIN list} |->
                   list[FirstIndex(list, n)].hash],
     index |-> [h \in {list[i].hash : i \in {j \in DOMAIN list :
                                                list[j].file_size > 0}} |->
                   list[LastIndex(list, h)].file_size]]

PeerNodeStore(list) ==
    [files |-> [n \in {list[i].filename : i \in DOMAIN list} |->
                   list[FirstIndex(list, n)].hash],
     index |-> [h \in {list[i].hash : i \in DOMAIN list} |->
                   list[LastIndex(list, h)].file_size]]

HandleFileMessage(p, list) ==
    /\ LoopIdle
    /\ inputs_left > 0
    /\ inputs_left' = inputs_left - 1
    /\ peer_stores' = [q \in DOMAIN peer_stores \cup {p} |->
                          IF q = p THEN PeerNodeStore(list) ELSE peer_stores[q]]
    /\ UNCHANGED <<fsvars, add_file, uploads, run_result, sync_file_task,
                   syncing_files, futs, file_get_requests, dispatched, sync_log, served, cmdvars>>

\* A gossip message whose payload, peer id or address does not decode
\* (FileMessage::decode, DiscoverMessage::decode, bs58::decode,
\* PeerId::from_bytes, Multiaddr::try_from): `?` up to Node::run
HandleBadGossipMessage(topic) ==
    /\ LoopIdle
    /\ inputs_left > 0
    /\ inputs_left' = inputs_left - 1
    /\ run_result' = IF topic = "private-share" THEN "decode file message failed"
                     ELSE "decode discover message failed"
    /\ UNCHANGED <<fsvars, add_file, uploads, syncvars, served, cmdvars>>

\* peer_id.to_base58() and its inverse, bs58::decode + PeerId::from_bytes
ToBase58(peer_id) == <<"base58", peer_id>>
FromBase58(text) == text[2]
\* Multiaddr::to_vec() and its inverse, Multiaddr::try_from(Vec<u8>)
AddrToVec(addr) == <<"bytes", addr>>
AddrFromVec(bytes) == bytes[2]
\* message::Peer
Peer(peer_id, addr) == [peer_id |-> ToBase58(peer_id), addr |-> AddrToVec(addr)]

\* DiscoverPeers as it would be if only the first listen address were sent
DiscoverPeersFirstOnly(peer_id, listen_addrs) ==
    [i \in 1..Min(1, Len(listen_addrs)) |-> Peer(peer_id, listen_addrs[i])]
\* info.listen_addrs.into_iter().map(|addr| Peer { .. }).collect()
DiscoverPeers(peer_id, listen_addrs) ==
    [i \in 1..Len(listen_addrs) |-> Peer(peer_id, listen_addrs[i])]

\* identify::Event::Received { peer_id, info }: the peer becomes an explicit
\* gossip peer and the DiscoverMessage is given to gossip.publish; when that
\* fails, `?` up to Node::run
HandleIdentifyReceived(peer_id, listen_addrs, publish_ok) ==
    /\ LoopIdle
    /\ inputs_left > 0
    /\ inputs_left' = inputs_left - 1
    /\ gossip_explicit' = gossip_explicit \cup {peer_id}
    /\ discover' = [publish |-> IF publish_ok THEN "ok" ELSE "err",
                    peers |-> DiscoverPeers(peer_id, listen_addrs)]
    /\ run_result' = IF publish_ok THEN run_result
                     ELSE "publish discover message failed"
    /\ UNCHANGED <<fsvars, add_file, uploads, syncvars, served, list_reply, codec,
                   announce, dials, cachevars, cmd_reply, config, config_yaml, config_yaml_tmp,
                   peer_addr_receiver, peer_addr_connecting, request_respond,
                   disconnect_requests, established, connected_peer, peers_cmd,
                   list_peers_reply>>

(***************************************************************************)
(* FileSync::need_sync: the (filename, hash) pairs of the peer stores that *)
(* store_dir does not hold, coalesced by hash.                             *)
(***************************************************************************)
\* StoreFilenames as it would be if need_sync did not read store_dir
StoreFilenamesUnread == {}

\* collect_filenames(store_dir): the local (filename, hash) pairs
StoreFilenames == {<<n, store_dir[n]>> : n \in {m \in Names : store_dir[m] # NoLink}}

NoTask == [state |-> "none", need_sync_files |-> <<>>]
NoServed == [kind |-> "none", filename |-> "a", hash |-> NoHash, content |-> <<>>]

\* the (peer, filename) pairs in iteration order: peers in order po, the
\* files of peer p in order no[p]
RECURSIVE PeerFilePairs(_, _, _)
PeerFilePairs(po, no, k) ==
    IF k > Len(po) THEN <<>>
    ELSE [j \in 1..Len(no[po[k]]) |-> <<po[k], no[po[k]][j]>>]
         \o PeerFilePairs(po, no, k + 1)

RECURSIVE NeedSyncLoop(_, _, _, _)
NeedSyncLoop(local, pairs, k, hash_files) ==
    IF k > Len(pairs) THEN hash_files
    ELSE LET peer == pairs[k][1]
             filename == pairs[k][2]
             hash == peer_stores[peer].files[filename]
         IN  IF <<filename, hash>> \in local
             THEN NeedSyncLoop(local, pairs, k + 1, hash_files)
             ELSE IF hash \in DOMAIN hash_files
             THEN NeedSyncLoop(local, pairs, k + 1,
                    [hash_files EXCEPT
                        ![hash].peers = Append(@, peer),
                        ![hash].filenames = Append(@, filename)])
             ELSE NeedSyncLoop(local, pairs, k + 1,
                    hash_files @@ (hash :>
                        [hash |-> hash, filenames |-> <<filename>>, peers |-> <<peer>>,
                         size |-> peer_stores[peer].index[hash], syncing_offset |-> 0]))

NeedSync(po, no) == NeedSyncLoop(StoreFilenames, PeerFilePairs(po, no, 1), 1, <<>>)

IterationOrders ==
    {<<po, no>> : po \in Perms(DOMAIN peer_stores),
                  no \in [DOMAIN peer_stores -> UNION {Perms(S) : S \in SUBSET Names}]}

ValidOrder(o) == \A p \in DOMAIN peer_stores :
                    Range(o[2][p]) = DOMAIN peer_stores[p].files
                    /\ Len(o[2][p]) = Cardinality(DOMAIN peer_stores[p].files)

(***************************************************************************)
(* FileSync::sync_files: the chunk requests of one round.                  *)
(***************************************************************************)
\* ChunkLoop as it would be without the break on a used-up task budget
RECURSIVE ChunkLoopNoBreak(_, _, _, _)
ChunkLoopNoBreak(hash_file, offset, remaining_task_number, reqs) ==
    IF offset < hash_file.size
    THEN ChunkLoopNoBreak(hash_file, offset + MAX_FILE_CHUNK_SIZE,
                          remaining_task_number - 1,
                          Append(reqs, [filename |-> hash_file.filenames[1],
                                        hash |-> hash_file.hash,
                                        offset |-> offset,
                                        length |-> MAX_FILE_CHUNK_SIZE]))
    ELSE [offset |-> offset, remaining |-> remaining_task_number, reqs |-> reqs]

\* the while loop over the chunks of one entry
RECURSIVE ChunkLoop(_, _, _, _)
ChunkLoop(hash_file, offset, remaining_task_number, reqs) ==
    IF offset < hash_file.size
    THEN LET file_request == [filename |-> hash_file.filenames[1],
                              hash |-> hash_file.hash,
                              offset |-> offset,
                              length |-> MAX_FILE_CHUNK_SIZE]
             next_offset == offset + MAX_FILE_CHUNK_SIZE
         IN  IF remaining_task_number - 1 = 0
             THEN [offset |-> next_offset, remaining |-> 0,
                   reqs |-> Append(reqs, file_request)]
             ELSE ChunkLoop(hash_file, next_offset, remaining_task_number - 1,
                            Append(reqs, file_request))
    ELSE [offset |-> offset, remaining |-> remaining_task_number, reqs |-> reqs]

\* RoundLoop as it would be if a round forgot the preserved syncing_offset
RECURSIVE RoundLoopFromZero(_, _, _, _, _, _)
RoundLoopFromZero(files, order, k, remaining_task_number, reqs, opened) ==
    IF k > Len(order) \/ remaining_task_number = 0
    THEN [files |-> files, reqs |-> reqs, opened |-> opened]
    ELSE LET hash == order[k]
             r == ChunkLoop(files[hash], 0, remaining_task_number, reqs)
         IN  RoundLoopFromZero([files EXCEPT ![hash].syncing_offset = r.offset], order,
                               k + 1, r.remaining, r.reqs, opened \cup {hash})

\* the for loop over need_sync_files, in iteration order `order`
RECURSIVE RoundLoop(_, _, _, _, _, _)
RoundLoop(files, order, k, remaining_task_number, reqs, opened) ==
    IF k > Len(order) \/ remaining_task_number = 0
    THEN [files |-> files, reqs |-> reqs, opened |-> opened]
    ELSE LET hash == order[k]
             r == ChunkLoop(files[hash], files[hash].syncing_offset,
                            remaining_task_number, reqs)
         IN  RoundLoop([files EXCEPT ![hash].syncing_offset = r.offset], order, k + 1,
                       r.remaining, r.reqs, opened \cup {hash})

\* The round on `files`, with .tmp as `tmp_e` / `tmp_s` left it; `prior` are the
\* requests the cohort has dispatched before this round
StartRound(files, tmp_e, tmp_s, prior) ==
    \E order \in Perms(DOMAIN files) :
        LET r == RoundLoop(files, order, 1, MAX_CONCURRENT_SYNC_TASKS, <<>>, {})
        IN  \E ps \in [1..Len(r.reqs) -> Peers] :
                /\ \A i \in 1..Len(r.reqs) :
                       ps[i] \in Range(files[r.reqs[i].hash].peers)
                /\ futs' = [i \in 1..Len(r.reqs) |->
                              [filename |-> r.reqs[i].filename, hash |-> r.reqs[i].hash,
                               offset |-> r.reqs[i].offset, length |-> r.reqs[i].length,
                               peer |-> ps[i], status |-> "pending",
                               result |-> "none", event |-> "none"]]
                /\ file_get_requests' = file_get_requests \cup (1..Len(r.reqs))
                /\ dispatched' = prior \cup {<<r.reqs[i].hash, r.reqs[i].offset>> :
                                                 i \in 1..Len(r.reqs)}
                \* create_or_open_temp_index_file
                /\ tmp_exists' = (tmp_e \/ r.opened # {})
                /\ tmp_sync' = [h \in IndexHashes |->
                                  IF h \in r.opened /\ tmp_s[h] = NoFile
                                  THEN <<>> ELSE tmp_s[h]]
                /\ sync_file_task' = [state |-> "running", need_sync_files |-> r.files]

\* the sync tick of the (None, None) arm: plan from the diff, clear .tmp, dispatch
SyncTick ==
    /\ LoopIdle
    /\ sync_file_task.state = "none"
    /\ \E o \in IterationOrders :
        /\ ValidOrder(o)
        /\ LET need_sync_files == NeedSync(o[1], o[2])
           IN  IF need_sync_files = <<>>
               THEN /\ sync_log' = "no need sync"
                    /\ UNCHANGED <<tmp_exists, tmp_sync, uploads, sync_file_task, futs,
                                   file_get_requests, dispatched>>
               ELSE \* remove_dir_all(index_dir/.tmp)
                    /\ uploads' = [i \in 1..MaxUploads |->
                                      [uploads[i] EXCEPT !.tmp = NoFile]]
                    /\ StartRound(need_sync_files, FALSE,
                                  [h \in IndexHashes |-> NoFile], {})
                    /\ sync_log' = "start sync files"
    /\ UNCHANGED <<index_dir, store_dir, add_file, run_result, inputs_left,
                   peer_stores, syncing_files, served, cmdvars>>

\* the (None, Some(_)) arm: the carried-over entries go into the next round
ContinueSync ==
    /\ run_result = "running"
    /\ add_file.pc # "copy"
    /\ sync_file_task.state = "none"
    /\ syncing_files # <<>>
    /\ StartRound(syncing_files, tmp_exists, tmp_sync, dispatched)
    /\ syncing_files' = <<>>
    /\ sync_log' = "continue sync files"
    /\ UNCHANGED <<index_dir, store_dir, add_file, uploads, run_result, inputs_left,
                   peer_stores, served, cmdvars>>

(***************************************************************************)
(* Responses and failures of the round's requests.  A peer answers with    *)
(* absent content or with the bytes it read at the offset (a short read    *)
(* returns fewer bytes than the file holds there).                         *)
(***************************************************************************)
ContentOf(h) == CHOOSE c \in Contents : Hash(c) = h

PeerAnswers(req) ==
    LET slice == ReadAt(ContentOf(req.hash), req.offset, req.length)
    IN  {slice} \cup (IF slice = <<>> THEN {} ELSE {SubSeq(slice, 1, Len(slice) - 1)})

\* RequestResponseMessage::Response: the one-shot gets Ok(response); the chunk
\* task writes the content, if any, at its offset
HandleResponse(id, has_content, data, write_ok) ==
    /\ LoopIdle
    /\ id \in file_get_requests
    /\ file_get_requests' = file_get_requests \ {id}
    /\ IF ~has_content
       THEN /\ futs' = [futs EXCEPT ![id].status = "ok", ![id].result = "Ok",
                                    ![id].event = "Response"]
            /\ UNCHANGED tmp_sync
       ELSE IF write_ok
       THEN /\ tmp_sync' = [tmp_sync EXCEPT ![futs[id].hash] =
                               WriteAt(@, data, futs[id].offset)]
            /\ futs' = [futs EXCEPT ![id].status = "ok", ![id].result = "Ok",
                                    ![id].event = "Response"]
       ELSE /\ futs' = [futs EXCEPT ![id].status = "err", ![id].result = "Ok",
                                    ![id].event = "Response"]
            /\ UNCHANGED tmp_sync
    /\ UNCHANGED <<index_dir, store_dir, tmp_exists, add_file, uploads, run_result,
                   inputs_left, peer_stores, sync_file_task, syncing_files,
                   dispatched, sync_log, served, cmdvars>>

\* the OutboundFailure variants and the io::ErrorKind each is turned into
OutboundFailures ==
    {"DialFailure", "UnsupportedProtocols", "Timeout", "ConnectionClosed"}
ErrorKindAllOther(failure) == "Other"
ErrorKindOf(failure) ==
    CASE failure = "Timeout" -> "TimedOut"
      [] failure = "ConnectionClosed" -> "ConnectionAborted"
      [] OTHER -> "Other"

\* RequestResponseEvent::OutboundFailure: the one-shot gets Err
HandleOutboundFailure(id, failure) ==
    /\ LoopIdle
    /\ id \in file_get_requests
    /\ file_get_requests' = file_get_requests \ {id}
    /\ futs' = [futs EXCEPT ![id].status = "err", ![id].result = ErrorKindOf(failure),
                         ![id].event = failure]
    /\ UNCHANGED <<fsvars, add_file, uploads, run_result, inputs_left, peer_stores,
                   sync_file_task, syncing_files, dispatched, sync_log, served, cmdvars>>

\* a Response or OutboundFailure event whose request id has no one-shot in
\* the table: file_get_requests.remove gives None and nothing is done
HandleUnknownRequestId(id) ==
    /\ LoopIdle
    /\ id \notin file_get_requests
    /\ UNCHANGED vars

(***************************************************************************)
(* handle_sync_files_result: await the chunk tasks in order, then move     *)
(* every entry with syncing_offset >= size to the index and link its names *)
(***************************************************************************)
\* the first chunk task that is not Ok(()), or 0
FirstNotOk(fs) ==
    IF \A i \in DOMAIN fs : fs[i].status = "ok" THEN 0
    ELSE CHOOSE i \in DOMAIN fs :
            /\ fs[i].status # "ok"
            /\ \A j \in DOMAIN fs : fs[j].status # "ok" => i <= j

\* fs::symlink(index_file_path, store_file_path): Err when the name exists
FinalizeSymlink(st, filename, hash) ==
    IF st.store[filename] # NoLink
    THEN [st EXCEPT !.err = TRUE]
    ELSE [st EXCEPT !.store[filename] = hash]

\* fs::rename(tmp_file_path, index_file_path), NotFound tolerated
FinalizeRename(st, hash) ==
    IF st.tmp[hash] = NoFile THEN st
    ELSE [st EXCEPT !.index[hash] = st.tmp[hash], !.tmp[hash] = NoFile,
                    !.renamed = @ \cup {hash}]

\* for filename in &hash_file.filenames
RECURSIVE FilenameLoop(_, _, _)
FilenameLoop(st, hash_file, k) ==
    IF k > Len(hash_file.filenames) \/ st.err THEN st
    ELSE FilenameLoop(
            FinalizeSymlink(FinalizeRename(st, hash_file.hash),
                            hash_file.filenames[k], hash_file.hash),
            hash_file, k + 1)

\* an entry is finalized when its syncing_offset reached its size
SyncDone(hash_file) == hash_file.syncing_offset >= hash_file.size

\* for hash_file in need_sync_files.values(), in iteration order `order`
RECURSIVE FinalizeLoop(_, _, _, _)
FinalizeLoop(st, files, order, k) ==
    IF k > Len(order) \/ st.err THEN st
    ELSE IF ~SyncDone(files[order[k]])
    THEN FinalizeLoop(st, files, order, k + 1)
    ELSE FinalizeLoop(FilenameLoop(st, files[order[k]], 1), files, order, k + 1)

SyncTaskFinish ==
    /\ sync_file_task.state = "running"
    /\ run_result = "running"
    /\ LET bad == FirstNotOk(futs)
           files == sync_file_task.need_sync_files
       IN  IF bad # 0
           THEN \* fut.await.unwrap()? returns the chunk task's error
                /\ futs[bad].status = "err"
                /\ sync_file_task' = [sync_file_task EXCEPT !.state = "chunk_err"]
                /\ UNCHANGED <<index_dir, store_dir, tmp_sync, add_file>>
           ELSE \E order \in Perms(DOMAIN files) :
                LET st == FinalizeLoop([index |-> index_dir, store |-> store_dir,
                                        tmp |-> tmp_sync, err |-> FALSE, renamed |-> {}],
                                       files, order, 1)
                    rest == {h \in DOMAIN files : ~SyncDone(files[h])}
                IN  /\ index_dir' = st.index
                    /\ store_dir' = st.store
                    /\ tmp_sync' = st.tmp
                    /\ add_file' = IF add_file.pc = "copy"
                                      /\ Hash(add_file.content) \in st.renamed
                                   THEN [add_file EXCEPT !.orphaned = TRUE]
                                   ELSE add_file
                    /\ sync_file_task' =
                          IF st.err THEN [sync_file_task EXCEPT !.state = "symlink_err"]
                          ELSE [state |-> "ok",
                                need_sync_files |-> [h \in rest |-> files[h]]]
    /\ UNCHANGED <<tmp_exists, uploads, run_result, inputs_left, peer_stores,
                   syncing_files, futs, file_get_requests, dispatched, sync_log, served, cmdvars>>

\* Node::run, "syncing files task is done": result.unwrap()?
LoopSyncDone ==
    /\ LoopIdle
    /\ sync_file_task.state \in {"ok", "chunk_err", "symlink_err"}
    /\ IF sync_file_task.state # "ok"
       THEN /\ run_result' = IF sync_file_task.state = "chunk_err"
                             THEN "sync chunk task failed"
                             ELSE "sync create symlink failed"
            /\ UNCHANGED <<sync_file_task, syncing_files, futs, dispatched, sync_log>>
       ELSE /\ syncing_files' = sync_file_task.need_sync_files
            /\ sync_file_task' = NoTask
            /\ futs' = <<>>
            /\ dispatched' = IF sync_file_task.need_sync_files = <<>> THEN {}
                             ELSE dispatched
            /\ sync_log' = IF sync_file_task.need_sync_files = <<>>
                           THEN "sync files task done"
                           ELSE "need continue sync files"
            /\ UNCHANGED run_result
    /\ UNCHANGED <<fsvars, add_file, uploads, inputs_left, peer_stores,
                   file_get_requests, served, cmdvars>>

(***************************************************************************)
(* EventHandler::read_file: serve an inbound FileRequest.                  *)
(***************************************************************************)
\* ReadFileStore as it would be if the symlink were made before the index
\* file is opened
ReadFileStoreLinkFirst(filename, hash) ==
    IF store_dir[filename] = NoLink
    THEN [store_dir EXCEPT ![filename] = hash]
    ELSE store_dir

\* what read_file leaves in store_dir: a name that is missing is linked to
\* the index file of the requested hash when that one can be opened
ReadFileStore(filename, hash) ==
    IF store_dir[filename] = NoLink /\ index_dir[hash] # NoFile
    THEN [store_dir EXCEPT ![filename] = hash]
    ELSE store_dir

\* what read_file returns: Err(InvalidData), Ok(None) or Ok(Some(bytes))
ReadFileResult(filename, hash, offset, length) ==
    IF store_dir[filename] # NoLink /\ store_dir[filename] # hash
    THEN [kind |-> "error", content |-> <<>>]
    ELSE IF index_dir[hash] = NoFile
    THEN [kind |-> "absent", content |-> <<>>]
    ELSE [kind |-> "content", content |-> ReadAt(index_dir[hash], offset, length)]

\* RequestResponseMessage::Request: read_file, then send_response.  The peers
\* of this program ask for MAX_FILE_CHUNK_SIZE bytes.  The open-file cache
\* only keeps descriptors of index files, which are never removed, so it
\* does not change whether the index file is found.
InboundRequest(filename, hash, offset) ==
    /\ LoopIdle
    /\ inputs_left > 0
    /\ inputs_left' = inputs_left - 1
    /\ LET r == ReadFileResult(filename, hash, offset, MAX_FILE_CHUNK_SIZE)
       IN  /\ served' = [kind |-> r.kind, filename |-> filename, hash |-> hash,
                         content |-> r.content]
           \* Err: `?` up to Node::run, no response is sent
           /\ run_result' = IF r.kind = "error" THEN "file found, but hash incorrect"
                            ELSE run_result
    /\ store_dir' = ReadFileStore(filename, hash)
    /\ UNCHANGED <<index_dir, tmp_exists, tmp_sync, add_file, uploads, syncvars, cmdvars>>

InitNode(inputs, peer_addrs) ==
    /\ index_dir = [h \in IndexHashes |-> NoFile]
    /\ store_dir = [n \in Names |-> NoLink]
    /\ tmp_exists = FALSE
    /\ tmp_sync = [h \in IndexHashes |-> NoFile]
    /\ add_file = IdleAdd
    /\ uploads = [i \in 1..MaxUploads |-> IdleUpload]
    /\ run_result = "running"
    /\ inputs_left = inputs
    /\ peer_stores = <<>>
    /\ sync_file_task = NoTask
    /\ syncing_files = <<>>
    /\ futs = <<>>
    /\ file_get_requests = {}
    /\ dispatched = {}
    /\ sync_log = "none"
    /\ served = NoServed
    /\ InitCmd(peer_addrs)

\* a node that starts with no configured peer
InitStore(inputs) == InitNode(inputs, <<>>)

Init == InitStore(MaxInputs)

Next ==
    \/ \E n \in Names, b \in Contents \cup {NoFile} : AddFileBegin(n, b)
    \/ AddFileCopy
    \/ AddFileReceive
    \/ \E n \in Names, b \in Contents :
           \E h \in {NoHash, Hash(b)} : UploadFile(n, h, b)
    \/ \E i \in 1..MaxUploads : UploadWrite(i)
    \/ \E i \in 1..MaxUploads : UploadRename(i)
    \/ \E i \in 1..MaxUploads : UploadSymlink(i)
    \/ \E i \in 1..MaxUploads : UploadReceive(i)
    \/ \E p \in Peers, list \in FileLists : HandleFileMessage(p, list)
    \/ \E topic \in {"private-share", "private-share/discover"} :
           HandleBadGossipMessage(topic)
    \/ \E publish_ok \in BOOLEAN : HandleIdentifyReceived("p1", <<"a0">>, publish_ok)
    \/ SyncTick
    \/ ContinueSync
    \/ \E id \in DOMAIN futs :
           \/ HandleResponse(id, FALSE, <<>>, TRUE)
           \/ \E data \in PeerAnswers(futs[id]), write_ok \in BOOLEAN :
                  HandleResponse(id, TRUE, data, write_ok)
    \/ \E id \in DOMAIN futs, failure \in OutboundFailures :
           HandleOutboundFailure(id, failure)
    \/ \E id \in 1..MAX_CONCURRENT_SYNC_TASKS : HandleUnknownRequestId(id)
    \/ SyncTaskFinish
    \/ LoopSyncDone
    \/ \E n \in Names, h \in IndexHashes, offset \in {0, MAX_FILE_CHUNK_SIZE} :
           InboundRequest(n, h, offset)

Spec == Init /\ [][Next]_vars

(***************************************************************************)
(* The upload path on its own: UploadFile commands and the steps of their  *)
(* detached tasks.                                                         *)
(***************************************************************************)
InitUploads == InitStore(MaxInputs + 1)

NextUploads ==
    \/ \E n \in Names, b \in Contents :
           \E h \in {NoHash, Hash(b)} : UploadFile(n, h, b)
    \/ \E i \in 1..MaxUploads : UploadWrite(i)
    \/ \E i \in 1..MaxUploads : UploadRename(i)
    \/ \E i \in 1..MaxUploads : UploadSymlink(i)
    \/ \E i \in 1..MaxUploads : UploadReceive(i)

SpecUploads == InitUploads /\ [][NextUploads]_vars

(***************************************************************************)
(* Properties.                                                             *)
(***************************************************************************)
\* the (filename, hash) pairs the known peers advertise
PeerPairs ==
    UNION {{<<n, peer_stores[p].files[n]>> : n \in DOMAIN peer_stores[p].files} :
           p \in DOMAIN peer_stores}

\* L: the (filename, hash) pairs store_dir holds
LocalPairs == {<<n, store_dir[n]>> : n \in {m \in Names : store_dir[m] # NoLink}}

\* C1: round-trip ingest.  When AddFile or UploadFile of content b under the
\* name n is answered ok, store_dir/n is a symlink to index_dir/H(b) and that
\* index file holds b, whatever store_dir/n pointed to before.
C1_RoundTripIngest ==
    [][ /\ (add_file.pc # "done" /\ add_file'.pc = "done" /\ add_file'.result = "ok")
            => /\ store_dir'[add_file'.filename] = Hash(add_file'.content)
               /\ index_dir'[Hash(add_file'.content)] = add_file'.content
        /\ \A i \in 1..MaxUploads :
              (/\ uploads[i].pc # "done"
               /\ uploads'[i].pc = "done"
               /\ uploads'[i].result \in {"ok", "ok_linked"})
              => /\ store_dir'[uploads'[i].filename] = Hash(uploads'[i].content)
                 /\ index_dir'[Hash(uploads'[i].content)] = uploads'[i].content
      ]_vars

\* C2: chunking totality.  When the sync task finalizes an entry (moves its
\* temp file to index_dir/<HASH>), the published file has exactly `size`
\* bytes and hashes to HASH: every byte was written from a peer's content,
\* also when peers answered with absent content or short reads.
C2_ChunkingTotality ==
    [][ \A h \in IndexHashes :
          (/\ sync_file_task.state = "running"
           /\ h \in DOMAIN sync_file_task.need_sync_files
           /\ tmp_sync[h] # NoFile
           /\ tmp_sync'[h] = NoFile)
          => /\ Len(index_dir'[h]) = sync_file_task.need_sync_files[h].size
             /\ Hash(index_dir'[h]) = h
      ]_vars

\* C3: resumability.  A round that ends with entries below their size hands
\* exactly those entries to the loop; the next round runs on exactly them,
\* starts every entry at its preserved syncing_offset, requests no range the
\* cohort has requested before, and leaves index_dir/.tmp as it was.
C3_Resumability ==
    [][ /\ (sync_file_task.state = "ok" /\ sync_file_task'.state = "none")
            => /\ syncing_files' = sync_file_task.need_sync_files
               /\ \A h \in DOMAIN syncing_files' :
                      syncing_files'[h].syncing_offset < syncing_files'[h].size
        /\ (syncing_files # <<>>)
            => /\ tmp_exists => tmp_exists'
               /\ \A h \in IndexHashes : tmp_sync[h] # NoFile => tmp_sync'[h] = tmp_sync[h]
               /\ \A i \in 1..MaxUploads :
                      (uploads[i].pc = "rename" /\ uploads'[i].pc = "rename")
                      => uploads'[i].tmp = uploads[i].tmp
               /\ sync_file_task'.state \in {"none", "running"}
               /\ (sync_file_task'.state = "running")
                  => /\ DOMAIN sync_file_task'.need_sync_files = DOMAIN syncing_files
                     /\ futs' # <<>>
                     /\ \A i \in DOMAIN futs' :
                          /\ futs'[i].hash \in DOMAIN syncing_files
                          /\ futs'[i].offset >= syncing_files[futs'[i].hash].syncing_offset
                          /\ <<futs'[i].hash, futs'[i].offset>> \notin dispatched
                          /\ \E j \in DOMAIN futs' :
                                /\ futs'[j].hash = futs'[i].hash
                                /\ futs'[j].offset =
                                      syncing_files[futs'[i].hash].syncing_offset
      ]_vars

\* a continuation round has requested the second chunk of a file
C3_Witness ==
    /\ sync_log = "continue sync files"
    /\ sync_file_task.state = "running"
    /\ \E i \in DOMAIN futs : futs[i].offset > 0 /\ <<futs[i].hash, 0>> \in dispatched

\* C4: diff minimality.  A tick that plans from the diff requests only
\* (filename, hash) pairs that a peer advertises and L does not hold; when L
\* holds every advertised pair the tick sends no request, starts no task
\* and leaves index_dir/.tmp untouched.
C4_DiffMinimality ==
    [][ /\ (/\ sync_file_task.state = "none"
             /\ syncing_files = <<>>
             /\ sync_file_task'.state = "running")
            => \A i \in DOMAIN futs' :
                  <<futs'[i].filename, futs'[i].hash>> \in PeerPairs \ LocalPairs
        /\ (/\ sync_file_task.state = "none"
             /\ syncing_files = <<>>
             /\ PeerPairs \subseteq LocalPairs)
            => /\ sync_file_task' = NoTask
               /\ futs' = futs
               /\ file_get_requests' = file_get_requests
               /\ tmp_sync' = tmp_sync
               /\ tmp_exists => tmp_exists'
               /\ \A i \in 1..MaxUploads :
                      (uploads[i].pc = "rename" /\ uploads'[i].pc = "rename")
                      => uploads'[i].tmp = uploads[i].tmp
      ]_vars

\* a tick found nothing to sync although peers advertise files
C4_Witness ==
    /\ sync_log = "no need sync"
    /\ sync_file_task = NoTask
    /\ PeerPairs # {}
    /\ PeerPairs \subseteq LocalPairs

\* C5: at most one publish per hash.  Upload tasks that carry the same
\* content b all reply ok, index_dir/H(b) holds b, and every uploaded name is
\* a symlink to it.
C5_OnePublishPerHash ==
    \A i \in 1..MaxUploads : \A j \in 1..MaxUploads :
        (/\ i # j
         /\ uploads[i].pc = "done" /\ uploads[i].result # "ok_linked"
         /\ uploads[j].pc = "done" /\ uploads[j].result # "ok_linked"
         /\ uploads[i].content = uploads[j].content)
        => /\ uploads[i].result = "ok"
           /\ uploads[j].result = "ok"
           /\ index_dir[Hash(uploads[i].content)] = uploads[i].content
           /\ store_dir[uploads[i].filename] = Hash(uploads[i].content)
           /\ store_dir[uploads[j].filename] = Hash(uploads[i].content)

\* C6: store invariant.  Every entry of store_dir is a symlink to an
\* index_dir/<HASH> that exists as a regular file.
C6_NoDanglingLinks ==
    \A n \in Names : store_dir[n] # NoLink => index_dir[store_dir[n]] # NoFile

\* C7: atomic publication.  A file visible at index_dir/<HASH> is complete:
\* its content hashes to HASH, in every intermediate state of every ingest.
C7_AtomicPublication ==
    \A h \in IndexHashes : index_dir[h] # NoFile => Hash(index_dir[h]) = h

\* C8: a gossip message that does not decode, on either topic, or a failed
\* publish while handling an identify event does not end Node::run.
C8_GossipFailureNotFatal ==
    run_result \notin {"decode file message failed", "decode discover message failed",
                       "publish discover message failed"}

\* C9: the failure of a chunk task of a sync round does not end Node::run.
C9_SyncFailureNotFatal == run_result # "sync chunk task failed"

C11_MismatchNotFatal ==
    /\ run_result # "file found, but hash incorrect"
    /\ served.kind = "error" => run_result = "running"

\* C12: finalization is idempotent.  Finalizing a completed entry succeeds
\* for every candidate filename, also when store_dir/<filename> exists
\* already: the sync task never fails on the symlink of a filename.
C12_FinalizeIdempotent ==
    /\ sync_file_task.state # "symlink_err"
    /\ run_result # "sync create symlink failed"

(***************************************************************************)
(* ListFiles: the descriptors of the local files and, with include_peer,   *)
(* of the files only peers advertise.                                      *)
(***************************************************************************)
\* the filenames in the order of String::cmp
SortedNames == <<"a", "b">>
NameRank(n) == CHOOSE i \in DOMAIN SortedNames : SortedNames[i] = n

\* the file lists of gossip messages; a peer may advertise a size that is
\* not the length of the content the hash names (it published a short file)
ShortFile(n, c, size) == [filename |-> n, hash |-> Hash(c), file_size |-> size]
ListFileLists ==
    FileLists \cup {<<ShortFile("a", <<1, 2, 1>>, 2)>>,
                    <<ShortFile("a", <<1, 2, 1>>, 2), File("b", <<1, 2, 1>>)>>}

\* read_link or fs::metadata of a store entry fails: metadata follows the link
ListFilesFails ==
    \E n \in Names : store_dir[n] # NoLink /\ index_dir[store_dir[n]] = NoFile

\* one ListFileDetail for every entry of store_dir
LocalDetails ==
    {[filename |-> n, hash |-> store_dir[n], downloaded |-> TRUE, peers |-> {},
      size |-> Len(index_dir[store_dir[n]])] :
        n \in {m \in Names : store_dir[m] # NoLink}}

\* the (peer, filename, hash, size) tuples of the peer stores that
\* exists_files does not hold
PeerTuples ==
    {t \in UNION {{<<p, n, peer_stores[p].files[n],
                     peer_stores[p].index[peer_stores[p].files[n]]>> :
                       n \in DOMAIN peer_stores[p].files} : p \in DOMAIN peer_stores} :
        <<t[2], t[3]>> \notin {<<d.filename, d.hash>> : d \in LocalDetails}}

\* file_peer_map: the details are merged by (filename, hash, downloaded, size)
PeerDetails ==
    {[filename |-> t[2], hash |-> t[3], downloaded |-> FALSE, size |-> t[4],
      peers |-> {u[1] : u \in {v \in PeerTuples :
                                  v[2] = t[2] /\ v[3] = t[3] /\ v[4] = t[4]}}] :
        t \in PeerTuples}

\* sorted_by(|a, b| a.filename.cmp(&b.filename))
SortedByFilename(seq) ==
    \A i \in DOMAIN seq : \A j \in DOMAIN seq :
        i < j => NameRank(seq[i].filename) <= NameRank(seq[j].filename)

\* the vectors the handler may send: a HashSet or HashMap iterates in any
\* order; with include_peer the vector is sorted by filename
ListFilesResults(include_peer) ==
    IF include_peer
    THEN {seq \in Perms(LocalDetails \cup PeerDetails) : SortedByFilename(seq)}
    ELSE Perms(LocalDetails)

ListFiles(include_peer) ==
    /\ LoopIdle
    /\ inputs_left > 0
    /\ inputs_left' = inputs_left - 1
    /\ IF ListFilesFails
       THEN list_reply' = [kind |-> "err", include_peer |-> include_peer,
                           details |-> <<>>]
       ELSE \E seq \in ListFilesResults(include_peer) :
                list_reply' = [kind |-> "ok", include_peer |-> include_peer,
                               details |-> seq]
    /\ UNCHANGED <<fsvars, add_file, uploads, run_result, syncvars, served, peervars,
                   codec, latervars>>

InitList == InitStore(MaxInputs + 1)

NextList ==
    \/ \E n \in Names, b \in Contents \cup {NoFile} : AddFileBegin(n, b)
    \/ AddFileCopy
    \/ AddFileReceive
    \/ \E p \in Peers, list \in ListFileLists : HandleFileMessage(p, list)
    \/ \E include_peer \in BOOLEAN : ListFiles(include_peer)

SpecList == InitList /\ [][NextList]_vars

\* C13: ListFiles(include_peer=true) returns one descriptor per distinct
\* (filename, hash): a pair of store_dir has downloaded=true and no peers, a
\* pair only peers advertise has downloaded=false and exactly the peers whose
\* store holds the pair, and no pair is in two descriptors.
C13_ListFilesDescriptors ==
    [][ (list_reply' # list_reply /\ list_reply'.include_peer)
        => LET ds == list_reply'.details
               Holders(n, h) == {p \in DOMAIN peer_stores :
                                    /\ n \in DOMAIN peer_stores[p].files
                                    /\ peer_stores[p].files[n] = h}
           IN  /\ list_reply'.kind = "ok"
               /\ {<<ds[i].filename, ds[i].hash>> : i \in DOMAIN ds}
                     = LocalPairs \cup PeerPairs
               /\ \A i \in DOMAIN ds : \A j \in DOMAIN ds :
                     (ds[i].filename = ds[j].filename /\ ds[i].hash = ds[j].hash)
                     => i = j
               /\ \A i \in DOMAIN ds :
                     IF <<ds[i].filename, ds[i].hash>> \in LocalPairs
                     THEN ds[i].downloaded /\ ds[i].peers = {}
                     ELSE /\ ~ds[i].downloaded
                          /\ ds[i].peers = Holders(ds[i].filename, ds[i].hash)
      ]_vars

\* C14: ListFiles returns its descriptors in non-decreasing filename order,
\* with and without include_peer.
C14_ListFilesSorted ==
    [][ (list_reply' # list_reply /\ list_reply'.kind = "ok")
        => SortedByFilename(list_reply'.details) ]_vars

(***************************************************************************)
(* Peer management: the configured peer list and its persistence, the dial *)
(* delay queue, connection events, AddPeers / RemovePeers / ListPeers.     *)
(***************************************************************************)
\* Vec::contains
Contains(seq, x) == \E i \in DOMAIN seq : seq[i] = x
\* peers.into_iter().filter(keep).collect()
RECURSIVE FilterPeers(_, _, _)
FilterPeers(peers, peer_addrs, keep_configured) ==
    IF peers = <<>> THEN <<>>
    ELSE LET rest == FilterPeers(Tail(peers), peer_addrs, keep_configured)
         IN  IF Contains(peer_addrs, Head(peers)) = keep_configured
             THEN <<Head(peers)>> \o rest
             ELSE rest
\* peer_addrs.retain(|exist_peer| *exist_peer != peer)
RECURSIVE Retain(_, _)
Retain(peer_addrs, peer) ==
    IF peer_addrs = <<>> THEN <<>>
    ELSE IF Head(peer_addrs) = peer THEN Retain(Tail(peer_addrs), peer)
    ELSE <<Head(peer_addrs)>> \o Retain(Tail(peer_addrs), peer)
KeepKey(map, key) == map
\* HashMap::remove
RemoveKey(map, key) == [k \in DOMAIN map \ {key} |-> map[k]]

\* what fs::write(config.yaml.tmp, data) leaves in the temporary file
WriteOutcomes == {"ok", "torn"}
TornFile(peer_addrs) ==
    [peer_addrs |-> SubSeq(peer_addrs, 1, Len(peer_addrs) - 1), complete |-> FALSE]
SwapWriteBeforeRename(yaml, tmp, mem, new_config, outcome) ==
    CASE outcome = "ok" ->
             [yaml |-> yaml, tmp |-> ConfigFile(new_config), mem |-> new_config]
      [] outcome = "torn" ->
             [yaml |-> yaml, tmp |-> TornFile(new_config), mem |-> mem]
      [] OTHER -> [yaml |-> yaml, tmp |-> tmp, mem |-> mem]
\* ConfigManager::swap up to the end of fs::write; the in-memory
\* configuration is not touched
SwapWrite(yaml, tmp, mem, new_config, outcome) ==
    CASE outcome = "ok" ->
             [yaml |-> yaml, tmp |-> ConfigFile(new_config), mem |-> mem]
      [] outcome = "torn" ->
             [yaml |-> yaml, tmp |-> TornFile(new_config), mem |-> mem]
      [] OTHER -> [yaml |-> yaml, tmp |-> tmp, mem |-> mem]

\* the common tail of AddPeers and RemovePeers: swap(new_config) is entered
BeginSwap(kind, peers, new_config, outcome) ==
    LET w == SwapWrite(config_yaml, config_yaml_tmp, config, new_config, outcome)
    IN  /\ config_yaml' = w.yaml
        /\ config_yaml_tmp' = w.tmp
        /\ config' = w.mem
        /\ peers_cmd' = [pc |-> IF outcome = "ok" THEN "rename" ELSE "idle",
                         kind |-> kind, peers |-> peers,
                         new_config |-> new_config,
                         result |-> IF outcome = "ok" THEN "none" ELSE "err",
                         seq |-> peers_cmd.seq + 1]

\* fs::rename(config.yaml.tmp, config.yaml), mem::replace, and the reply
SwapRename(rename_ok) ==
    /\ run_result = "running"
    /\ peers_cmd.pc = "rename"
    /\ IF rename_ok
       THEN /\ config_yaml' = config_yaml_tmp
            /\ config_yaml_tmp' = NoConfigFile
            /\ config' = peers_cmd.new_config
            /\ peers_cmd' = [peers_cmd EXCEPT !.pc = "idle", !.result = "ok"]
       ELSE /\ peers_cmd' = [peers_cmd EXCEPT !.pc = "idle", !.result = "err"]
            /\ UNCHANGED <<config, config_yaml, config_yaml_tmp>>
    /\ UNCHANGED <<fsvars, add_file, uploads, run_result, inputs_left, syncvars,
                   served, list_reply, codec, latervars, peer_addr_receiver, peer_addr_connecting,
                   gossip_explicit, request_respond, disconnect_requests,
                   established, connected_peer, list_peers_reply>>

AddPeers(peers, outcome) ==
    /\ LoopIdle
    /\ inputs_left > 0
    /\ inputs_left' = inputs_left - 1
    /\ LET new == FilterPeers(peers, config, FALSE)
       IN  IF new = <<>>
           THEN /\ peers_cmd' = [IdlePeersCmd EXCEPT !.kind = "add", !.peers = peers,
                                     !.new_config = config, !.result = "ok",
                                     !.seq = peers_cmd.seq + 1]
                /\ UNCHANGED <<config, config_yaml, config_yaml_tmp,
                               peer_addr_receiver>>
           ELSE /\ peer_addr_receiver' = Enqueue(peer_addr_receiver, new, 0)
                /\ BeginSwap("add", peers, config \o new, outcome)
    /\ UNCHANGED <<fsvars, add_file, uploads, run_result, syncvars, served,
                   list_reply, codec, latervars, peer_addr_connecting, gossip_explicit,
                   request_respond, disconnect_requests, established,
                   connected_peer, list_peers_reply>>

\* the for loop of handle_remove_peers_command over the filtered peers
RECURSIVE RemoveLoop(_, _)
RemoveLoop(st, peers) ==
    IF peers = <<>> THEN st
    ELSE LET peer == Head(peers)
             peer_id == PeerIdOf(peer)
         IN  IF peer_id = NoPeer
             THEN [st EXCEPT !.failed = TRUE]
             ELSE RemoveLoop(
                      [st EXCEPT !.disconnect_requests = @ \cup {peer_id},
                                 !.gossip_explicit = @ \ {peer_id},
                                 !.request_respond = @ \ {<<peer_id, peer>>},
                                 !.new_config = Retain(@, peer),
                                 !.peer_stores = RemoveKey(@, peer_id)],
                      Tail(peers))

RemovePeers(peers, outcome) ==
    /\ LoopIdle
    /\ inputs_left > 0
    /\ inputs_left' = inputs_left - 1
    /\ LET old == FilterPeers(peers, config, TRUE)
           st == RemoveLoop([disconnect_requests |-> disconnect_requests,
                             gossip_explicit |-> gossip_explicit,
                             request_respond |-> request_respond,
                             new_config |-> config,
                             peer_stores |-> peer_stores,
                             failed |-> FALSE], old)
       IN  IF old = <<>>
           THEN /\ peers_cmd' = [IdlePeersCmd EXCEPT !.kind = "remove",
                                     !.peers = peers, !.new_config = config,
                                     !.result = "ok",
                                     !.seq = peers_cmd.seq + 1]
                /\ UNCHANGED <<config, config_yaml, config_yaml_tmp, peer_stores,
                               gossip_explicit, request_respond,
                               disconnect_requests>>
           ELSE /\ disconnect_requests' = st.disconnect_requests
                /\ gossip_explicit' = st.gossip_explicit
                /\ request_respond' = st.request_respond
                /\ peer_stores' = st.peer_stores
                /\ IF st.failed
                   THEN /\ peers_cmd' = [IdlePeersCmd EXCEPT !.kind = "remove",
                                             !.peers = peers,
                                             !.new_config = st.new_config,
                                             !.result = "err",
                                             !.seq = peers_cmd.seq + 1]
                        /\ UNCHANGED <<config, config_yaml, config_yaml_tmp>>
                   ELSE BeginSwap("remove", peers, st.new_config, outcome)
    /\ UNCHANGED <<fsvars, add_file, uploads, run_result, sync_file_task,
                   syncing_files, futs, file_get_requests, dispatched, sync_log,
                   served, list_reply, codec, latervars, peer_addr_receiver, peer_addr_connecting,
                   established, connected_peer, list_peers_reply>>

\* handle_list_peers_command
ListPeers ==
    /\ LoopIdle
    /\ inputs_left > 0
    /\ inputs_left' = inputs_left - 1
    /\ list_peers_reply' = <<"ok", connected_peer>>
    /\ UNCHANGED <<fsvars, add_file, uploads, run_result, syncvars, served,
                   list_reply, codec, latervars, config, config_yaml, config_yaml_tmp,
                   peer_addr_receiver, peer_addr_connecting, gossip_explicit,
                   request_respond, disconnect_requests, established,
                   connected_peer, peers_cmd>>

\* swarm.connected_peers() contains the peer
IsConnected(p) == \E c \in established : c[1] = p

\* the peer_addr_receiver branch of the loop: PeerConnector::connect_peer
ConnectPeer(dial_ok) ==
    /\ LoopIdle
    /\ peer_addr_receiver # <<>>
    /\ peer_addr_receiver' = Tail(peer_addr_receiver)
    /\ LET addr == Head(peer_addr_receiver).addr
           peer_id == PeerIdOf(addr)
       IN  IF \/ peer_id = NoPeer
              \/ IsConnected(peer_id)
              \/ peer_addr_connecting[peer_id] # NoAddr
              \/ ~dial_ok
           THEN UNCHANGED <<peer_addr_connecting, dials>>
           ELSE \* swarm.dial(addr) is Ok: the swarm holds one more dial
                /\ dials[peer_id] < MaxDials
                /\ dials' = [dials EXCEPT ![peer_id] = @ + 1]
                /\ peer_addr_connecting' =
                       [peer_addr_connecting EXCEPT ![peer_id] = addr]
    /\ UNCHANGED <<fsvars, add_file, uploads, run_result, inputs_left, syncvars,
                   served, list_reply, codec, announce, cachevars, discover, cmd_reply, config,
                   config_yaml,
                   config_yaml_tmp, gossip_explicit, request_respond,
                   disconnect_requests, established, connected_peer, peers_cmd,
                   list_peers_reply>>

\* SwarmEvent::ConnectionEstablished { peer_id, endpoint, .. }: as dialer it
\* resolves one of the swarm's dials to the peer, as listener none
ConnectionEstablished(peer_id, addr, is_dialer) ==
    /\ LoopIdle
    /\ <<peer_id, addr>> \notin established
    /\ established' = established \cup {<<peer_id, addr>>}
    /\ gossip_explicit' = gossip_explicit \cup {peer_id}
    /\ peer_addr_connecting' = [peer_addr_connecting EXCEPT ![peer_id] = NoAddr]
    /\ IF is_dialer
       THEN /\ dials[peer_id] > 0
            /\ dials' = [dials EXCEPT ![peer_id] = @ - 1]
       ELSE UNCHANGED dials
    /\ UNCHANGED <<fsvars, add_file, uploads, run_result, inputs_left, syncvars,
                   served, list_reply, codec, announce, cachevars, discover, cmd_reply, config,
                   config_yaml,
                   config_yaml_tmp, peer_addr_receiver, request_respond,
                   disconnect_requests, connected_peer, peers_cmd, list_peers_reply>>

\* SwarmEvent::ConnectionClosed { peer_id, .. }
ConnectionClosed(peer_id, addr) ==
    /\ LoopIdle
    /\ <<peer_id, addr>> \in established
    /\ established' = established \ {<<peer_id, addr>>}
    /\ gossip_explicit' = gossip_explicit \ {peer_id}
    /\ UNCHANGED <<fsvars, add_file, uploads, run_result, inputs_left, syncvars,
                   served, list_reply, codec, latervars, config, config_yaml, config_yaml_tmp,
                   peer_addr_receiver, peer_addr_connecting, request_respond,
                   disconnect_requests, connected_peer, peers_cmd,
                   list_peers_reply>>

\* SwarmEvent::OutgoingConnectionError { peer_id: Some(peer_id), .. }: one of
\* the swarm's dials to the peer has failed
OutgoingConnectionError(peer_id) ==
    /\ LoopIdle
    /\ dials[peer_id] > 0
    /\ dials' = [dials EXCEPT ![peer_id] = @ - 1]
    /\ IF peer_addr_connecting[peer_id] # NoAddr
       THEN /\ peer_addr_connecting' =
                   [peer_addr_connecting EXCEPT ![peer_id] = NoAddr]
            /\ peer_addr_receiver' =
                   Enqueue(peer_addr_receiver, <<peer_addr_connecting[peer_id]>>, 3)
       ELSE UNCHANGED <<peer_addr_connecting, peer_addr_receiver>>
    /\ UNCHANGED <<fsvars, add_file, uploads, run_result, inputs_left, syncvars,
                   served, list_reply, codec, announce, cachevars, discover, cmd_reply, config,
                   config_yaml,
                   config_yaml_tmp, gossip_explicit, request_respond,
                   disconnect_requests, established, connected_peer, peers_cmd,
                   list_peers_reply>>

\* the for loop over the decoded (peer_id, addr) pairs of a DiscoverMessage
RECURSIVE AddDiscovered(_, _, _)
AddDiscovered(book, peers, k) ==
    IF k > Len(peers) THEN book
    ELSE LET peer_id == FromBase58(peers[k].peer_id)
             addr == AddrFromVec(peers[k].addr)
         IN  IF IsConnected(peer_id)
             THEN AddDiscovered(book, peers, k + 1)
             ELSE AddDiscovered(book \cup {<<peer_id, addr>>}, peers, k + 1)

\* a gossip message on the discover topic whose peers all decode: each
\* address is given to request-response routing unless the peer is connected
HandleDiscoverMessage(peers) ==
    /\ LoopIdle
    /\ request_respond' = AddDiscovered(request_respond, peers, 1)
    /\ UNCHANGED <<fsvars, add_file, uploads, run_result, inputs_left, syncvars,
                   served, list_reply, codec, latervars, config, config_yaml, config_yaml_tmp,
                   peer_addr_receiver, peer_addr_connecting, gossip_explicit,
                   disconnect_requests, established, connected_peer, peers_cmd,
                   list_peers_reply>>

\* the arguments of the peer commands that are tried
PeerArgs == {<<"a1">>, <<"a2">>, <<"a1", "a1">>, <<"a0", "a1">>}
\* the addresses a peer can be reached at
AddrsOf(p) == {a \in Addrs : PeerIdOf(a) = p}

\* a node whose configuration names the peer at a2
InitialPeerAddrs == <<"a2">>
InitPeers == InitNode(MaxInputs, InitialPeerAddrs)

NextPeers ==
    \/ \E peers \in PeerArgs, outcome \in WriteOutcomes : AddPeers(peers, outcome)
    \/ \E peers \in PeerArgs, outcome \in WriteOutcomes : RemovePeers(peers, outcome)
    \/ \E rename_ok \in BOOLEAN : SwapRename(rename_ok)
    \/ ListPeers
    \/ \E dial_ok \in BOOLEAN : ConnectPeer(dial_ok)
    \/ \E p \in Peers : \E a \in AddrsOf(p) : \E is_dialer \in BOOLEAN :
           ConnectionEstablished(p, a, is_dialer)
    \/ \E p \in Peers : \E a \in AddrsOf(p) : ConnectionClosed(p, a)
    \/ \E p \in Peers : OutgoingConnectionError(p)
    \/ \E p \in Peers : \E a \in AddrsOf(p) : HandleDiscoverMessage(<<Peer(p, a)>>)
    \/ \E p \in Peers : HandleFileMessage(p, <<File("a", <<>>)>>)

SpecPeers == InitPeers /\ [][NextPeers]_vars

\* the loop dequeues an AddPeers / a RemovePeers command in this step
AddPeersStep == peers_cmd'.seq # peers_cmd.seq /\ peers_cmd'.kind = "add"
RemovePeersStep == peers_cmd'.seq # peers_cmd.seq /\ peers_cmd'.kind = "remove"
\* the reply to the peer command is sent in this step
PeersReplyStep ==
    /\ peers_cmd'.result # "none"
    /\ peers_cmd'.seq # peers_cmd.seq \/ peers_cmd.pc = "rename"
\* the entries a step has put at the end of the dial delay queue
Queued ==
    {peer_addr_receiver'[i] :
        i \in Len(peer_addr_receiver) + 1 .. Len(peer_addr_receiver')}

\* C15: AddPeers(A) appends every address of A that is not in the persisted
\* peer list to it and puts it in the dial delay queue with delay 0; an
\* address that is configured changes neither; so the same AddPeers issued a
\* second time leaves the persisted peer list and the dial queue unchanged.
C15_AddPeersIdempotent ==
    [][ /\ AddPeersStep =>
             /\ \A a \in Range(peers_cmd'.peers) :
                    IF Contains(config_yaml.peer_addrs, a)
                    THEN [addr |-> a, delay |-> 0] \notin Queued
                    ELSE [addr |-> a, delay |-> 0] \in Queued
             /\ (peers_cmd.kind = "add" /\ peers_cmd.peers = peers_cmd'.peers) =>
                    /\ peer_addr_receiver' = peer_addr_receiver
                    /\ config_yaml' = config_yaml
                    /\ peers_cmd'.pc = "idle"
        /\ (PeersReplyStep /\ peers_cmd'.kind = "add") =>
             /\ config_yaml'.complete
             /\ \A a \in Range(peers_cmd'.peers) :
                    Contains(config_yaml'.peer_addrs, a)
             /\ \A i \in DOMAIN config_yaml.peer_addrs :
                    i \in DOMAIN config_yaml'.peer_addrs
                    /\ config_yaml'.peer_addrs[i] = config_yaml.peer_addrs[i]
      ]_vars

\* the address of a RemovePeers([a]) command for a configured address a
\* that embeds a peer id
SingleRemoved(cmd, peer_addrs) ==
    /\ cmd.kind = "remove"
    /\ Len(cmd.peers) = 1
    /\ Contains(peer_addrs, cmd.peers[1])
    /\ PeerIdOf(cmd.peers[1]) # NoPeer

\* C16: when RemovePeers([a]) replies ok for a configured address a with
\* embedded peer id p, a disconnect of p was requested, p is not a gossip
\* explicit peer, a is not in request-response routing, peer_stores has no
\* entry for p, a is in neither the in-memory nor the persisted peer list, and
\* the peer stores and list entries of the other peers are as before.
C16_RemovePeersEffect ==
    [][ /\ (RemovePeersStep /\ SingleRemoved(peers_cmd', config)) =>
             LET a == peers_cmd'.peers[1]
                 p == PeerIdOf(a)
             IN  /\ DOMAIN peer_stores' = DOMAIN peer_stores \ {p}
                 /\ \A q \in DOMAIN peer_stores' : peer_stores'[q] = peer_stores[q]
                 /\ request_respond' = request_respond \ {<<p, a>>}
                 /\ gossip_explicit' = gossip_explicit \ {p}
                 /\ peers_cmd'.new_config = Retain(config, a)
                 /\ config' = config
        /\ (/\ peers_cmd.pc = "rename"
            /\ peers_cmd'.result = "ok"
            /\ SingleRemoved(peers_cmd, config)) =>
             LET a == peers_cmd.peers[1]
                 p == PeerIdOf(a)
             IN  /\ p \in disconnect_requests'
                 /\ p \notin gossip_explicit'
                 /\ <<p, a>> \notin request_respond'
                 /\ p \notin DOMAIN peer_stores'
                 /\ ~Contains(config', a)
                 /\ config' = Retain(config, a)
                 /\ config_yaml' = ConfigFile(Retain(config_yaml.peer_addrs, a))
      ]_vars

\* RemovePeers([a2]) has replied ok while the connection to p2 is still open
\* and another peer's store is known
C16_Witness ==
    /\ peers_cmd.kind = "remove"
    /\ peers_cmd.peers = <<"a2">>
    /\ peers_cmd.result = "ok"
    /\ config = <<>>
    /\ config_yaml = ConfigFile(<<>>)
    /\ <<"p2", "a2">> \in established
    /\ "p2" \notin gossip_explicit
    /\ "p1" \in DOMAIN peer_stores

\* C17: ListPeers returns exactly the peers that have an established
\* connection, with their addresses: p with the connection's address between
\* ConnectionEstablished and ConnectionClosed for p, and not p after it.
C17_ListPeersConnected ==
    [][ list_peers_reply' # list_peers_reply =>
            /\ list_peers_reply'[1] = "ok"
            /\ list_peers_reply'[2] = established ]_vars

\* an UploadFile command was dequeued and its detached task has not replied
UploadPending(i) == uploads[i].pc \in {"write", "rename", "symlink"}

\* C18: command results are delivered in dequeue order: the reply to a
\* command is not sent while a command the loop dequeued before it, an
\* UploadFile with a detached task included, still waits for its reply.
C18_RepliesInDequeueOrder ==
    [][ (\/ add_file.pc # "done" /\ add_file'.pc = "done"
         \/ \E j \in 1..MaxUploads :
                uploads[j].pc = "idle" /\ uploads'[j].pc = "done")
        => \A i \in 1..MaxUploads : ~UploadPending(i) ]_vars

\* C19: config persistence is atomic: config.yaml always holds the complete
\* old or the complete new configuration, and changes only by the rename of
\* a completely written config.yaml.tmp; the in-memory configuration is
\* replaced only in the step of a successful rename; when the write or the
\* rename fails it is unchanged and the command replies with the error.
C19_AtomicConfigSwap ==
    [][ /\ config_yaml'.complete
        /\ config_yaml' # config_yaml =>
               /\ peers_cmd.pc = "rename"
               /\ config_yaml_tmp = ConfigFile(peers_cmd.new_config)
               /\ config_yaml' = config_yaml_tmp
        /\ config' # config =>
               /\ peers_cmd.pc = "rename"
               /\ config_yaml' = ConfigFile(config')
               /\ config' = peers_cmd.new_config
               /\ peers_cmd'.result = "ok"
        /\ (PeersReplyStep /\ peers_cmd'.result = "err") =>
               /\ config' = config
               /\ config_yaml' = config_yaml
        /\ (\/ /\ peers_cmd.pc # "rename"
                /\ config_yaml_tmp' # config_yaml_tmp
                /\ ~config_yaml_tmp'.complete
            \/ peers_cmd.pc = "rename" /\ config_yaml_tmp' = config_yaml_tmp) =>
               peers_cmd'.result = "err"
        /\ peers_cmd'.pc = "idle" => config' = config_yaml'.peer_addrs
      ]_vars

\* a rename has failed: the new list is complete in config.yaml.tmp, the
\* command has replied err, config.yaml and the in-memory list are the old one
C19_Witness ==
    /\ peers_cmd.pc = "idle"
    /\ peers_cmd.result = "err"
    /\ config_yaml_tmp = ConfigFile(peers_cmd.new_config)
    /\ config_yaml_tmp # config_yaml
    /\ config_yaml.complete
    /\ config = config_yaml.peer_addrs

(***************************************************************************)
(* FileCodec: a FileRequest or FileResponse is encoded as a protobuf       *)
(* message and written as one length-prefixed frame; the reader takes the  *)
(* frame off the stream and decodes its payload.  Bytes are naturals.      *)
(***************************************************************************)
\* the key of a protobuf field: wire type 0 is varint, 2 is length-delimited
Key(field, wire_type) == field * 8 + wire_type
\* #[prost(string)] and #[prost(uint64)]: a default value is not encoded
EncodeString(field, str) ==
    IF str = <<>> THEN <<>> ELSE <<Key(field, 2), Len(str)>> \o str
EncodeUint64(field, v) == IF v = 0 THEN <<>> ELSE <<Key(field, 0), v>>
\* #[prost(bytes, optional)]: None is not encoded, Some(b) always is
EncodeOptionalBytes(field, opt) ==
    IF opt.some THEN <<Key(field, 2), Len(opt.data)>> \o opt.data ELSE <<>>

FileRequest(filename, hash, offset, length) ==
    [type |-> "request", filename |-> filename, hash |-> hash,
     offset |-> offset, length |-> length]
FileResponse(content) == [type |-> "response", content |-> content]
None == [some |-> FALSE, data |-> <<>>]
Some(data) == [some |-> TRUE, data |-> data]

\* encode_to_vec
EncodeToVec(msg) ==
    IF msg.type = "request"
    THEN EncodeString(1, msg.filename) \o EncodeString(2, msg.hash)
         \o EncodeUint64(3, msg.offset) \o EncodeUint64(4, msg.length)
    ELSE EncodeOptionalBytes(1, msg.content)

\* the fields of an encoded message, or ok = FALSE for a truncated field or
\* a wire type the messages do not use
RECURSIVE ParseFields(_)
ParseFields(data) ==
    IF data = <<>> THEN [ok |-> TRUE, fields |-> <<>>]
    ELSE LET wire_type == data[1] % 8
             field == data[1] \div 8
             size == IF wire_type = 2 /\ Len(data) >= 2 THEN 2 + data[2] ELSE 2
         IN  IF wire_type \notin {0, 2} \/ Len(data) < size
             THEN [ok |-> FALSE, fields |-> <<>>]
             ELSE LET rest == ParseFields(SubSeq(data, size + 1, Len(data)))
                      this == [field |-> field, wire_type |-> wire_type,
                               value |-> data[2],
                               bytes |-> SubSeq(data, 3, size)]
                  IN  [ok |-> rest.ok, fields |-> <<this>> \o rest.fields]

\* Message::merge_field for FileRequest and FileResponse; a field of the
\* wrong wire type is a decode error, an unknown field is skipped
MergeField(msg, f) ==
    LET wrong == [msg EXCEPT !.type = "error"]
    IN  IF msg.type = "request"
        THEN CASE f.field = 1 -> IF f.wire_type = 2
                                 THEN [msg EXCEPT !.filename = f.bytes] ELSE wrong
               [] f.field = 2 -> IF f.wire_type = 2
                                 THEN [msg EXCEPT !.hash = f.bytes] ELSE wrong
               [] f.field = 3 -> IF f.wire_type = 0
                                 THEN [msg EXCEPT !.offset = f.value] ELSE wrong
               [] f.field = 4 -> IF f.wire_type = 0
                                 THEN [msg EXCEPT !.length = f.value] ELSE wrong
               [] OTHER -> msg
        ELSE IF msg.type = "response" /\ f.field = 1
        THEN IF f.wire_type = 2 THEN [msg EXCEPT !.content = Some(f.bytes)] ELSE wrong
        ELSE msg
RECURSIVE MergeFields(_, _)
MergeFields(msg, fields) ==
    IF fields = <<>> THEN msg
    ELSE MergeFields(MergeField(msg, Head(fields)), Tail(fields))

\* FileRequest::decode / FileResponse::decode, from the default message
Decode(default, data) ==
    LET parsed == ParseFields(data)
        msg == MergeFields(default, parsed.fields)
    IN  IF parsed.ok /\ msg.type # "error"
        THEN [kind |-> "ok", msg |-> msg]
        ELSE [kind |-> "err", error |-> "decode"]

\* write_length_prefixed: the length, then the payload
WriteLengthPrefixed(data) == <<Len(data)>> \o data
\* read_length_prefixed(io, MAX_CHUNK_SIZE)
ReadLengthPrefixed(frame) ==
    IF frame[1] > MAX_CHUNK_SIZE
    THEN [kind |-> "err", error |-> "InvalidData"]
    ELSE [kind |-> "ok", data |-> SubSeq(frame, 2, 1 + frame[1])]

\* read_request and read_response
ReadMessage(default, frame) ==
    LET prefixed == ReadLengthPrefixed(frame)
    IN  IF prefixed.kind = "err" THEN prefixed
        ELSE IF prefixed.data = <<>>
        THEN [kind |-> "err", error |-> "UnexpectedEof"]
        ELSE Decode(default, prefixed.data)

\* the messages that are sent: requests with empty and non-empty fields,
\* responses with absent, empty and non-empty content up to the frame limit
Requests ==
    {FileRequest(filename, hash, offset, length) :
        filename \in {<<>>, <<1>>, <<1, 1>>}, hash \in {<<>>, <<2>>, <<2, 1>>},
        offset \in 0..2, length \in {0, MAX_FILE_CHUNK_SIZE}}
Responses ==
    {FileResponse(None)}
    \cup {FileResponse(Some([i \in 1..k |-> 1])) : k \in 0..MAX_CHUNK_SIZE}

\* write_request / write_response
WriteMessage(msg) ==
    /\ codec.pc = "idle"
    /\ codec' = [codec EXCEPT !.pc = "written", !.msg = msg,
                              !.frame = WriteLengthPrefixed(EncodeToVec(msg))]
    /\ UNCHANGED <<fsvars, add_file, uploads, run_result, inputs_left, syncvars,
                   served, list_reply, peervars, latervars>>

ReadRequest ==
    /\ codec.pc = "written"
    /\ codec.msg.type = "request"
    /\ codec' = [codec EXCEPT !.pc = "read",
                     !.read = ReadMessage(FileRequest(<<>>, <<>>, 0, 0), codec.frame)]
    /\ UNCHANGED <<fsvars, add_file, uploads, run_result, inputs_left, syncvars,
                   served, list_reply, peervars, latervars>>

ReadResponse ==
    /\ codec.pc = "written"
    /\ codec.msg.type = "response"
    /\ codec' = [codec EXCEPT !.pc = "read",
                     !.read = ReadMessage(FileResponse(None), codec.frame)]
    /\ UNCHANGED <<fsvars, add_file, uploads, run_result, inputs_left, syncvars,
                   served, list_reply, peervars, latervars>>

InitCodec == InitStore(MaxInputs)

NextCodec ==
    \/ \E msg \in Requests \cup Responses : WriteMessage(msg)
    \/ ReadRequest
    \/ ReadResponse

SpecCodec == InitCodec /\ [][NextCodec]_vars

\* C20: a FileRequest or FileResponse written with FileCodec and read back
\* is the same message, a FileResponse with absent content and a FileRequest
\* with only empty and zero fields included; a written frame is rejected only
\* when its payload exceeds the frame limit.
C20_CodecRoundTrip ==
    codec.pc = "read" =>
        IF Len(EncodeToVec(codec.msg)) > MAX_CHUNK_SIZE
        THEN codec.read.kind = "err" \/ codec.read = [kind |-> "ok", msg |-> codec.msg]
        ELSE codec.read = [kind |-> "ok", msg |-> codec.msg]

\* a sync round is dispatched in this step
RoundDispatched == sync_file_task.state # "running" /\ sync_file_task'.state = "running"

\* C21: chunk plan.  Every FileRequest of a round starts at a multiple of the
\* chunk size, its length is min(chunk size, S - offset) for the size S of its
\* entry, and it does not reach past the end of the file.
C21_ChunkPlanLengths ==
    [][ RoundDispatched =>
            \A id \in DOMAIN futs' :
                LET req == futs'[id]
                    S == sync_file_task'.need_sync_files[req.hash].size
                IN  /\ req.offset % MAX_FILE_CHUNK_SIZE = 0
                    /\ req.offset < S
                    /\ req.length = Min(MAX_FILE_CHUNK_SIZE, S - req.offset)
                    /\ req.offset + req.length <= S ]_vars

(***************************************************************************)
(* The refresh tick: RefreshStoreHandler::handle_tick announces the local  *)
(* store on the file-share topic.                                          *)
(***************************************************************************)
\* util::collect_filenames(store_dir)
LinkedNames == {n \in Names : store_dir[n] # NoLink}
\* fs::metadata(index_file_path) fails for some entry
RefreshFails == \E n \in LinkedNames : index_dir[store_dir[n]] = NoFile
\* the File of one entry: the link's name, the basename of its target, and
\* the size of the file it resolves to
AnnouncedFile(n) ==
    [filename |-> n, hash |-> store_dir[n], file_size |-> Len(index_dir[store_dir[n]])]
\* the outcomes of gossip.publish
PublishOutcomes == {"ok", "InsufficientPeers", "err"}

RefreshTick(publish) ==
    /\ LoopIdle
    /\ sync_file_task.state = "none"
    /\ inputs_left > 0
    /\ inputs_left' = inputs_left - 1
    /\ IF RefreshFails
       THEN /\ announce' = [ticks |-> announce.ticks + 1, publish |-> "none",
                            file_list |-> <<>>]
            /\ run_result' = "refresh store failed"
       ELSE /\ \E order \in Perms(LinkedNames) :
                   announce' = [ticks |-> announce.ticks + 1, publish |-> publish,
                                file_list |-> [i \in 1..Len(order) |->
                                                  AnnouncedFile(order[i])]]
            /\ run_result' = IF publish = "err" THEN "publish file message failed"
                             ELSE run_result
    /\ UNCHANGED <<fsvars, add_file, uploads, syncvars, served, list_reply,
                   peervars, codec, dials, cachevars, discover, cmd_reply>>

NextRefresh ==
    \/ Next
    \/ \E publish \in PublishOutcomes : RefreshTick(publish)

SpecRefresh == Init /\ [][NextRefresh]_vars

\* C22: a refresh tick publishes a FileMessage whose file list is exactly
\* the (name, basename of the link target, size) of the entries of store_dir,
\* so two announces with the store unchanged carry the same files; a publish
\* that fails for want of a connected peer does not end the loop.
C22_AnnounceSnapshot ==
    [][ announce'.ticks # announce.ticks =>
            /\ announce'.publish # "none"
            /\ Len(announce'.file_list) = Cardinality(LinkedNames)
            /\ \A n \in LinkedNames :
                   \E i \in DOMAIN announce'.file_list :
                       /\ announce'.file_list[i].filename = n
                       /\ announce'.file_list[i].hash = store_dir[n]
                       /\ index_dir[store_dir[n]] # NoFile
                       /\ announce'.file_list[i].file_size = Len(index_dir[store_dir[n]])
            /\ announce'.publish \in {"ok", "InsufficientPeers"} =>
                   run_result' = "running" ]_vars

\* C24: peer store snapshot replacement.  Handling a FileMessage of peer p
\* with file list F leaves p's store with exactly the filenames of F, each
\* with the hash of its first entry in F, and an index with an announced size
\* for exactly the hashes of F; the stores of all other peers are unchanged.
C24_SnapshotReplacement ==
    [][ \A p \in Peers, F \in FileLists :
            HandleFileMessage(p, F) =>
                /\ DOMAIN peer_stores' = DOMAIN peer_stores \cup {p}
                /\ DOMAIN peer_stores'[p].files = {F[i].filename : i \in DOMAIN F}
                /\ \A i \in DOMAIN F :
                       (\A j \in 1..(i - 1) : F[j].filename # F[i].filename) =>
                           peer_stores'[p].files[F[i].filename] = F[i].hash
                /\ DOMAIN peer_stores'[p].index = {F[i].hash : i \in DOMAIN F}
                /\ \A h \in DOMAIN peer_stores'[p].index :
                       \E i \in DOMAIN F :
                           F[i].hash = h /\ F[i].file_size = peer_stores'[p].index[h]
                /\ \A q \in DOMAIN peer_stores \ {p} :
                       peer_stores'[q] = peer_stores[q] ]_vars

\* p1's snapshot named b twice: the first hash is kept for b, both hashes
\* are indexed, and the store of p2 is known as well
C24_Witness ==
    /\ DOMAIN peer_stores = {"p1", "p2"}
    /\ peer_stores["p1"].files = [n \in {"b"} |-> Hash(<<1, 2, 1>>)]
    /\ DOMAIN peer_stores["p1"].index = {Hash(<<>>), Hash(<<1, 2, 1>>)}

\* C25: in-flight request table lifecycle.  A request id is in the table
\* exactly while its one-shot has no result; the id leaves the table in the
\* step that handles its response or its outbound failure, and the one-shot
\* then gets its only result: Ok(response), or an error of kind Other for a
\* dial failure or an unsupported protocol, TimedOut for a timeout,
\* ConnectionAborted for a closed connection.  An event whose id is not in
\* the table changes nothing.  When every request of a round was answered,
\* the table holds no entry of the round.
C25_RequestTableLifecycle ==
    [][ /\ file_get_requests' \subseteq DOMAIN futs'
        /\ \A id \in DOMAIN futs' :
               (id \in file_get_requests') = (futs'[id].result = "none")
        /\ RoundDispatched => file_get_requests' = DOMAIN futs'
        /\ \A id \in file_get_requests \ file_get_requests' :
               /\ futs[id].result = "none"
               /\ futs'[id].result # "none"
               /\ futs'[id].event \in {"Response"} \cup OutboundFailures
               /\ futs'[id].result =
                      CASE futs'[id].event = "Response" -> "Ok"
                        [] futs'[id].event \in {"DialFailure", "UnsupportedProtocols"}
                               -> "Other"
                        [] futs'[id].event = "Timeout" -> "TimedOut"
                        [] futs'[id].event = "ConnectionClosed" -> "ConnectionAborted"
        /\ \A id \in DOMAIN futs \cap DOMAIN futs' :
               (futs[id].result # "none" /\ ~RoundDispatched) => futs'[id] = futs[id]
        /\ \A id \in 1..MAX_CONCURRENT_SYNC_TASKS :
               HandleUnknownRequestId(id) => UNCHANGED vars
      ]_vars

\* a round whose request timed out: the one-shot has the TimedOut error and
\* the table is empty again
C25_Witness ==
    /\ futs # <<>>
    /\ \A id \in DOMAIN futs :
           futs[id].event = "Timeout" /\ futs[id].result = "TimedOut"
    /\ file_get_requests = {}
    /\ sync_file_task.state = "chunk_err"

C27_PeerConnector ==
    [][ /\ (\E dial_ok \in BOOLEAN : ConnectPeer(dial_ok)) =>
               LET addr == Head(peer_addr_receiver).addr
                   peer_id == PeerIdOf(addr)
               IN  IF \/ peer_id = NoPeer
                      \/ IsConnected(peer_id)
                      \/ peer_addr_connecting[peer_id] # NoAddr
                   THEN UNCHANGED <<dials, peer_addr_connecting>>
                   ELSE \/ UNCHANGED <<dials, peer_addr_connecting>>
                        \/ /\ dials' = [dials EXCEPT ![peer_id] = @ + 1]
                           /\ peer_addr_connecting' =
                                  [peer_addr_connecting EXCEPT ![peer_id] = addr]
        /\ \A p \in Peers :
               /\ dials'[p] <= 1
               /\ dials'[p] > dials[p] => ~IsConnected(p)
      ]_vars

\* connect_peer called swarm.dial for the head of the delay queue and the
\* swarm returned an error
DialRefused(addr) ==
    /\ ConnectPeer(FALSE)
    /\ Head(peer_addr_receiver).addr = addr
    /\ PeerIdOf(addr) # NoPeer
    /\ ~IsConnected(PeerIdOf(addr))
    /\ peer_addr_connecting[PeerIdOf(addr)] = NoAddr

\* C28: dial retry.  An outgoing connection error for a peer with an entry
\* in the connecting set removes the entry and puts its address once, with a
\* 3 s delay, in the delay queue; for a peer without an entry nothing is
\* queued; ConnectionEstablished clears the entry and queues nothing.  Hence
\* after every failed dial of an address of the initial peer list the
\* address is queued for another dial.
C28_DialRetry ==
    [][ /\ \A p \in Peers :
               OutgoingConnectionError(p) =>
                   IF peer_addr_connecting[p] # NoAddr
                   THEN /\ peer_addr_connecting'[p] = NoAddr
                        /\ peer_addr_receiver' =
                               Append(peer_addr_receiver,
                                      [addr |-> peer_addr_connecting[p], delay |-> 3])
                   ELSE UNCHANGED <<peer_addr_receiver, peer_addr_connecting>>
        /\ \A p \in Peers : \A a \in AddrsOf(p) : \A is_dialer \in BOOLEAN :
               ConnectionEstablished(p, a, is_dialer) =>
                   /\ peer_addr_connecting'[p] = NoAddr
                   /\ UNCHANGED peer_addr_receiver
        /\ \A a \in Range(InitialPeerAddrs) :
               (DialRefused(a) \/ (OutgoingConnectionError(PeerIdOf(a))
                                   /\ peer_addr_connecting[PeerIdOf(a)] = a)) =>
                   \E i \in DOMAIN peer_addr_receiver' : peer_addr_receiver'[i].addr = a
      ]_vars

(***************************************************************************)
(* FileCache: an LruCache from hash to (file handle, last-use instant).    *)
(* A handle is named by the number of the opener invocation that made it.  *)
(***************************************************************************)
CacheHashes == 1..(MAX_FILE_COUNT + 1)

\* the position of `hash` in the cache, or 0
CacheIndex(files, hash) ==
    IF \E i \in DOMAIN files : files[i].hash = hash
    THEN CHOOSE i \in DOMAIN files : files[i].hash = hash
    ELSE 0

RemoveAt(files, i) == SubSeq(files, 1, i - 1) \o SubSeq(files, i + 1, Len(files))

\* LruCache::put of a key that is not cached: the entry becomes the most
\* recently used, and the least recently used one leaves a full cache
LruPut(files, entry) ==
    IF Len(files) >= MAX_FILE_COUNT
    THEN <<entry>> \o SubSeq(files, 1, MAX_FILE_COUNT - 1)
    ELSE <<entry>> \o files

\* Expired as it would be with `>=` for `>`
ExpiredAtTimeout(entry, timeout) == clock - entry.instant >= timeout
\* instant.elapsed() > timeout
Expired(entry, timeout) == clock - entry.instant > timeout

\* FileCache::get_or_open_file(hash, open_fn), the opener succeeding or not
GetOrOpenFile(hash, open_ok) ==
    /\ LET i == CacheIndex(cache_files, hash)
       IN  IF i # 0
           THEN \* self.files.get_mut(hash): *instant = Instant::now()
                /\ cache_files' = <<[cache_files[i] EXCEPT !.instant = clock]>>
                                      \o RemoveAt(cache_files, i)
                /\ cache_call' = [op |-> "get_or_open_file", hash |-> hash,
                                  result |-> "Ok", file |-> cache_files[i].file,
                                  opener_invoked |-> 0, evicted |-> 0,
                                  opens |-> cache_call.opens]
           ELSE /\ cache_call.opens < MaxOpens
                /\ IF open_ok
                   THEN LET file == cache_call.opens + 1
                        IN  /\ cache_files' =
                                   LruPut(cache_files, [hash |-> hash, file |-> file,
                                                        instant |-> clock])
                            /\ cache_call' =
                                   [op |-> "get_or_open_file", hash |-> hash,
                                    result |-> "Ok", file |-> file,
                                    opener_invoked |-> 1,
                                    evicted |-> IF Len(cache_files) >= MAX_FILE_COUNT
                                                THEN cache_files[Len(cache_files)].hash
                                                ELSE 0,
                                    opens |-> file]
                   ELSE \* open_fn().await?
                        /\ cache_files' = cache_files
                        /\ cache_call' = [op |-> "get_or_open_file", hash |-> hash,
                                          result |-> "Err", file |-> 0,
                                          opener_invoked |-> 1, evicted |-> 0,
                                          opens |-> cache_call.opens + 1]
    /\ UNCHANGED <<fsvars, add_file, uploads, run_result, inputs_left, syncvars,
                   served, list_reply, peervars, codec, announce, dials, discover, cmd_reply,
                   clock>>

\* FileCache::clean_timeout(timeout)
CleanTimeout(timeout) ==
    /\ cache_files' = SelectSeq(cache_files, LAMBDA entry : ~Expired(entry, timeout))
    /\ cache_call' = [cache_call EXCEPT !.op = "clean_timeout", !.hash = 0,
                                        !.result = "none", !.file = 0,
                                        !.opener_invoked = 0, !.evicted = 0]
    /\ UNCHANGED <<fsvars, add_file, uploads, run_result, inputs_left, syncvars,
                   served, list_reply, peervars, codec, announce, dials, discover, cmd_reply,
                   clock>>

\* a second passes
ClockTick ==
    /\ clock < MaxClock
    /\ clock' = clock + 1
    /\ UNCHANGED <<fsvars, add_file, uploads, run_result, inputs_left, syncvars,
                   served, list_reply, peervars, codec, announce, dials, discover, cmd_reply,
                   cache_files, cache_call>>

NextCache ==
    \/ \E hash \in CacheHashes, open_ok \in BOOLEAN : GetOrOpenFile(hash, open_ok)
    \/ CleanTimeout(FILE_CACHE_TIMEOUT)
    \/ ClockTick

SpecCache == Init /\ [][NextCache]_vars

\* the entries of a cache, as a set
Entries(files) == {files[i] : i \in DOMAIN files}

\* C29: open-file cache.  The cache never holds more than MAX_FILE_COUNT
\* entries.  A hit returns the cached handle, does not invoke the opener and
\* sets the entry's last use to now.  A miss invokes the opener once; when
\* it succeeds the new handle is cached, and a full cache first loses its
\* least recently used entry; when it fails nothing is inserted.  After
\* clean_timeout exactly the entries used within the timeout remain.
C29_FileCache ==
    [][ /\ Len(cache_files') <= MAX_FILE_COUNT
        /\ \A i, j \in DOMAIN cache_files' :
               cache_files'[i].hash = cache_files'[j].hash => i = j
        /\ \A hash \in CacheHashes, open_ok \in BOOLEAN :
               GetOrOpenFile(hash, open_ok) =>
                   IF \E e \in Entries(cache_files) : e.hash = hash
                   THEN LET e == CHOOSE e \in Entries(cache_files) : e.hash = hash
                        IN  /\ cache_call'.result = "Ok"
                            /\ cache_call'.file = e.file
                            /\ cache_call'.opener_invoked = 0
                            /\ cache_call'.opens = cache_call.opens
                            /\ Entries(cache_files') =
                                   (Entries(cache_files) \ {e})
                                       \cup {[e EXCEPT !.instant = clock]}
                   ELSE /\ cache_call'.opener_invoked = 1
                        /\ cache_call'.opens = cache_call.opens + 1
                        /\ IF open_ok
                           THEN LET new == [hash |-> hash, file |-> cache_call'.file,
                                            instant |-> clock]
                                    lost == Entries(cache_files) \ Entries(cache_files')
                                IN  /\ cache_call'.result = "Ok"
                                    /\ \A e \in Entries(cache_files) :
                                           e.file # cache_call'.file
                                    /\ Entries(cache_files') \ Entries(cache_files)
                                           = {new}
                                    /\ IF Len(cache_files) = MAX_FILE_COUNT
                                       THEN /\ Cardinality(lost) = 1
                                            /\ \A l \in lost :
                                                   \A e \in Entries(cache_files) :
                                                       l.instant <= e.instant
                                       ELSE lost = {}
                           ELSE /\ cache_call'.result = "Err"
                                /\ cache_files' = cache_files
        /\ CleanTimeout(FILE_CACHE_TIMEOUT) =>
               Entries(cache_files') =
                   {e \in Entries(cache_files) :
                        clock - e.instant <= FILE_CACHE_TIMEOUT}
      ]_vars

\* a miss on a full cache has evicted an entry, and an entry used exactly
\* FILE_CACHE_TIMEOUT ago is still cached
C29_Witness ==
    /\ cache_call.op = "get_or_open_file"
    /\ cache_call.evicted # 0
    /\ Len(cache_files) = MAX_FILE_COUNT
    /\ \E e \in Entries(cache_files) : clock - e.instant = FILE_CACHE_TIMEOUT

(***************************************************************************)
(* Identify and discover events, with connections opening and closing.     *)
(***************************************************************************)
\* the listen addresses an identify info may carry
ListenAddrLists == {<<>>, <<"a0">>, <<"a0", "a1">>}

\* the peer lists of the discover messages that are tried
DiscoverLists ==
    LET pairs == {Peer(p, a) : p \in Peers, a \in {"a0", "a1"}}
    IN  {<<>>} \cup {<<x>> : x \in pairs} \cup {<<x, y>> : x \in pairs, y \in pairs}

NextDiscover ==
    \/ \E p \in Peers, listen_addrs \in ListenAddrLists, publish_ok \in BOOLEAN :
           HandleIdentifyReceived(p, listen_addrs, publish_ok)
    \/ \E peers \in DiscoverLists : HandleDiscoverMessage(peers)
    \/ \E p \in Peers : \E a \in AddrsOf(p) : \E is_dialer \in BOOLEAN :
           ConnectionEstablished(p, a, is_dialer)
    \/ \E p \in Peers : \E a \in AddrsOf(p) : ConnectionClosed(p, a)

SpecDiscover == Init /\ [][NextDiscover]_vars

\* C30: identify and discover.  An identify-received event for peer p makes
\* p an explicit gossip peer and gives gossip.publish one DiscoverMessage
\* with the pair (p, addr) for each listen address of p, in their order.  A
\* DiscoverMessage adds each of its (peer id, address) pairs to the
\* request-response address book exactly when that peer has no connection,
\* and takes nothing out of the book.
C30_IdentifyAndDiscover ==
    [][ /\ \A p \in Peers, listen_addrs \in ListenAddrLists, publish_ok \in BOOLEAN :
               HandleIdentifyReceived(p, listen_addrs, publish_ok) =>
                   /\ gossip_explicit' = gossip_explicit \cup {p}
                   /\ Len(discover'.peers) = Len(listen_addrs)
                   /\ \A i \in DOMAIN listen_addrs :
                          /\ FromBase58(discover'.peers[i].peer_id) = p
                          /\ AddrFromVec(discover'.peers[i].addr) = listen_addrs[i]
                   /\ discover'.publish # "none"
                   /\ UNCHANGED request_respond
        /\ \A peers \in DiscoverLists :
               HandleDiscoverMessage(peers) =>
                   /\ request_respond \subseteq request_respond'
                   /\ \A p \in Peers, a \in Addrs :
                          (<<p, a>> \in request_respond' \ request_respond) <=>
                              /\ <<p, a>> \notin request_respond
                              /\ \E i \in DOMAIN peers :
                                     peers[i] = [peer_id |-> <<"base58", p>>,
                                                 addr |-> <<"bytes", a>>]
                              /\ ~\E c \in established : c[1] = p
                   /\ UNCHANGED <<gossip_explicit, discover>>
      ]_vars

\* an identify event with two listen addresses was published, and a discover
\* message has put the address of a peer without connection in the book while
\* another peer is connected and has none
C30_Witness ==
    /\ Len(discover.peers) = 2
    /\ discover.publish = "ok"
    /\ \E p, q \in Peers :
           /\ p # q
           /\ <<p, "a0">> \in request_respond
           /\ \E c \in established : c[1] = q
           /\ \A a \in Addrs : <<q, a>> \notin request_respond
           /\ p \in gossip_explicit

\* C31: at most one sync task.  A fresh sync plan is made only when there is
\* neither a sync task nor carry-over entries; a round is dispatched only
\* when no task exists; the entries a finished task has left become the
\* carry-over, and the carry-over is taken only by a continuation round on
\* exactly those entries, with their filenames, peers, sizes and offsets,
\* before any new diff is computed.
C31_SingleSyncTask ==
    [][ /\ SyncTick => (sync_file_task.state = "none" /\ syncing_files = <<>>)
        /\ RoundDispatched =>
               /\ sync_file_task.state = "none"
               /\ IF syncing_files = <<>>
                  THEN SyncTick
                  ELSE /\ sync_log' = "continue sync files"
                       /\ syncing_files' = <<>>
                       /\ DOMAIN sync_file_task'.need_sync_files = DOMAIN syncing_files
                       /\ \A h \in DOMAIN syncing_files :
                              LET old == syncing_files[h]
                                  new == sync_file_task'.need_sync_files[h]
                              IN  /\ [new EXCEPT !.syncing_offset = 0]
                                         = [old EXCEPT !.syncing_offset = 0]
                                  /\ new.syncing_offset >= old.syncing_offset
                       /\ \A id \in DOMAIN futs' : futs'[id].hash \in DOMAIN syncing_files
        /\ (sync_file_task.state = "ok" /\ sync_file_task'.state = "none") =>
               syncing_files' = sync_file_task.need_sync_files
        /\ (syncing_files # <<>> /\ syncing_files' # syncing_files) => RoundDispatched
        /\ syncing_files # <<>> => peer_stores' = peer_stores
      ]_vars

\* a task has finished with entries left and the continuation round on them
\* is running
C31_Witness ==
    /\ sync_file_task.state = "running"
    /\ sync_log = "continue sync files"
    /\ \E h \in DOMAIN sync_file_task.need_sync_files :
           sync_file_task.need_sync_files[h].syncing_offset > MAX_FILE_CHUNK_SIZE

\* C32: a fresh sync plan never destroys the temp file of an upload that is
\* in progress: no step other than the upload's own rename takes the temp
\* file of an upload waiting to rename it, and the rename of
\* index_dir/.tmp/.upload.<rand> to index_dir/<HASH> finds the file, so the
\* upload goes on to its symlink and does not reply with an error.
C32_SyncKeepsUploadTemp ==
    [][ \A i \in 1..MaxUploads :
            /\ (uploads[i].pc = "rename" /\ uploads'[i].pc = "rename") =>
                   uploads'[i].tmp = uploads[i].tmp
            /\ (uploads[i].pc = "rename" /\ uploads'[i].pc # "rename") =>
                   /\ uploads'[i].pc = "symlink"
                   /\ uploads'[i].result # "err"
                   /\ index_dir'[Hash(uploads[i].content)] = uploads[i].content
      ]_vars

\* every chunk request of the running round was answered and written
AllAnswered == \A id \in DOMAIN futs : futs[id].status = "ok"

\* C33: sync terminates.  Every round dispatches at least one request and
\* strictly increases the syncing_offset of some entry, and no offset ever
\* passes size + MAX_FILE_CHUNK_SIZE, so the rounds are finitely many; a
\* round whose requests were all answered ends without error; the entries
\* it leaves are exactly those below their size, and when none is left the
\* in-progress map is empty and the loop is back at the sync ticker.
C33_SyncTerminates ==
    [][ /\ RoundDispatched =>
               /\ Len(futs') >= 1
               /\ \E h \in DOMAIN sync_file_task'.need_sync_files :
                      LET new == sync_file_task'.need_sync_files[h].syncing_offset
                          old == IF syncing_files = <<>> THEN 0
                                 ELSE syncing_files[h].syncing_offset
                      IN  new > old
               /\ \A h \in DOMAIN sync_file_task'.need_sync_files :
                      LET f == sync_file_task'.need_sync_files[h]
                      IN  f.syncing_offset < f.size + MAX_FILE_CHUNK_SIZE
        /\ (SyncTaskFinish /\ AllAnswered) =>
               /\ sync_file_task'.state = "ok"
               /\ \A h \in DOMAIN sync_file_task.need_sync_files :
                      LET f == sync_file_task.need_sync_files[h]
                      IN  (h \in DOMAIN sync_file_task'.need_sync_files)
                              <=> (f.syncing_offset < f.size)
        /\ (LoopSyncDone /\ sync_file_task.state = "ok"
                /\ sync_file_task.need_sync_files = <<>>) =>
               /\ syncing_files' = <<>>
               /\ sync_file_task' = NoTask
               /\ run_result' = "running"
      ]_vars

(***************************************************************************)
(* The commands on their own: every command of handle_command and the      *)
(* steps its handler is suspended in.                                      *)
(***************************************************************************)
\* bandwidth_sinks.total_inbound() / total_outbound(): the byte counts tried
Bandwidths == {0, 1}

\* handle_get_bandwidth_command
GetBandwidth(inbound, outbound) ==
    /\ LoopIdle
    /\ inputs_left > 0
    /\ inputs_left' = inputs_left - 1
    /\ cmd_reply' = [cmd |-> "GetBandwidth", sends |-> << <<inbound, outbound>> >>]
    /\ UNCHANGED <<fsvars, add_file, uploads, run_result, syncvars, served,
                   list_reply, peervars, codec, announce, dials, cachevars,
                   discover>>

\* what collect_filenames and file_getter.get_file may do
GetFileOutcomes == {"ok", "collect_err", "get_err"}

\* handle_get_file_command as it would be without the return that follows
\* the reply of the file that is not found
GetFileSendsFallThrough(filename, outcome) ==
    IF outcome = "collect_err" THEN << <<"Err">> >>
    ELSE (IF store_dir[filename] = NoLink THEN << <<"Ok", "None">> >> ELSE <<>>)
         \o (IF outcome = "get_err" \/ store_dir[filename] = NoLink
                \/ index_dir[store_dir[filename]] = NoFile
             THEN << <<"Err">> >>
             ELSE << <<"Ok", "Some", index_dir[store_dir[filename]]>> >>)

\* handle_get_file_command: the results given to result_sender.send.  The
\* file getter opens store_dir/<filename>, which follows the symlink
GetFileSends(filename, outcome) ==
    IF outcome = "collect_err" THEN << <<"Err">> >>
    ELSE IF store_dir[filename] = NoLink THEN << <<"Ok", "None">> >>
    ELSE IF outcome = "get_err" \/ index_dir[store_dir[filename]] = NoFile
    THEN << <<"Err">> >>
    ELSE << <<"Ok", "Some", index_dir[store_dir[filename]]>> >>

GetFile(filename, outcome) ==
    /\ LoopIdle
    /\ inputs_left > 0
    /\ inputs_left' = inputs_left - 1
    /\ cmd_reply' = [cmd |-> "GetFile", sends |-> GetFileSends(filename, outcome)]
    /\ UNCHANGED <<fsvars, add_file, uploads, run_result, syncvars, served,
                   list_reply, peervars, codec, announce, dials, cachevars,
                   discover>>

InitCommands == InitPeers

NextCommands ==
    \/ \E n \in Names, b \in Contents \cup {NoFile} : AddFileBegin(n, b)
    \/ AddFileCopy
    \/ AddFileReceive
    \/ \E n \in Names, b \in Contents :
           \E h \in {NoHash, Hash(b)} : UploadFile(n, h, b)
    \/ \E i \in 1..MaxUploads : UploadWrite(i)
    \/ \E i \in 1..MaxUploads : UploadRename(i)
    \/ \E i \in 1..MaxUploads : UploadSymlink(i)
    \/ \E i \in 1..MaxUploads : UploadReceive(i)
    \/ \E include_peer \in BOOLEAN : ListFiles(include_peer)
    \/ ListPeers
    \/ \E inbound \in Bandwidths, outbound \in Bandwidths :
           GetBandwidth(inbound, outbound)
    \/ \E peers \in PeerArgs, outcome \in WriteOutcomes : AddPeers(peers, outcome)
    \/ \E peers \in PeerArgs, outcome \in WriteOutcomes : RemovePeers(peers, outcome)
    \/ \E rename_ok \in BOOLEAN : SwapRename(rename_ok)
    \/ \E n \in Names, outcome \in GetFileOutcomes : GetFile(n, outcome)

SpecCommands == InitCommands /\ [][NextCommands]_vars

\* the handler of the command has returned or its detached task has ended
AddFileReturned == add_file.pc = "done"
UploadReturned(i) == uploads[i].pc = "done"
PeersCmdReturned == peers_cmd.kind # "none" /\ peers_cmd.pc = "idle"

RemovedOk(a) ==
    /\ peers_cmd.kind = "remove"
    /\ peers_cmd.peers = <<a>>
    /\ peers_cmd.pc = "idle"
    /\ peers_cmd.result = "ok"
\* this step hands the address a to swarm.dial, which accepts it
DialStep(a) ==
    /\ PeerIdOf(a) # NoPeer
    /\ dials'[PeerIdOf(a)] = dials[PeerIdOf(a)] + 1
    /\ peer_addr_connecting'[PeerIdOf(a)] = a

\* C35: a removed peer is not dialled.  After RemovePeers([a]) replied Ok
\* and until an AddPeers command is dequeued, no step dials a, also when a
\* was in the dial delay queue or in the connecting set when it was removed.
C35_NoDialAfterRemove ==
    [][\A a \in Addrs : RemovedOk(a) => ~DialStep(a)]_vars

\* no element occurs twice in the sequence
NoDuplicates(seq) ==
    \A i \in DOMAIN seq : \A j \in DOMAIN seq : seq[i] = seq[j] => i = j

\* C37: the persisted peer list holds no address more than once, whatever
\* AddPeers and RemovePeers commands were handled and whatever their argument
\* lists repeat; and once RemovePeers([a]) has replied Ok it does not hold a.
C37_PersistedListHasNoDuplicates ==
    /\ NoDuplicates(config_yaml.peer_addrs)
    /\ \A a \in Addrs : RemovedOk(a) => ~Contains(config_yaml.peer_addrs, a)

\* what RemovePeers changes besides the reply: the disconnect requests, the
\* peer stores, the gossip and routing entries and both peer lists
RemoveEffects ==
    <<disconnect_requests, peer_stores, gossip_explicit, request_respond, config,
      config_yaml>>

\* C36: RemovePeers is all-or-nothing.  A RemovePeers that replies with an
\* error in the step it is dequeued (an address without peer id, a failed
\* write of the configuration) has disconnected no peer, dropped no peer
\* store, removed no gossip or routing entry and left both peer lists as
\* they were; one that replies with an error after the rename of the
\* configuration failed had removed nothing before it entered the swap.
C36_RemovePeersAllOrNothing ==
    [][ /\ (RemovePeersStep /\ peers_cmd'.result = "err") =>
               RemoveEffects' = RemoveEffects
        /\ (/\ peers_cmd.kind = "remove"
            /\ peers_cmd.pc = "rename"
            /\ peers_cmd'.result = "err") =>
               /\ peers_cmd.new_config = config
               /\ config' = config
               /\ config_yaml' = config_yaml
      ]_vars

\* C38: in every peer store, each hash that is a value of the files map is a
\* key of the index map, whatever FileMessages were handled and whatever
\* filenames or hashes they repeat: the size lookups of the sync diff and of
\* ListFiles find their hash.
C38_FilesHashesAreIndexed ==
    \A p \in DOMAIN peer_stores :
        \A n \in DOMAIN peer_stores[p].files :
            peer_stores[p].files[n] \in DOMAIN peer_stores[p].index

\* a peer store built from a message that names one hash under two filenames
\* with two sizes, and another built from a message that names one filename
\* with two hashes, after ListFiles looked the sizes up
C38_Witness ==
    /\ list_reply.kind = "ok"
    /\ list_reply.include_peer
    /\ \E p \in DOMAIN peer_stores :
           /\ DOMAIN peer_stores[p].files = {"a", "b"}
           /\ Cardinality(DOMAIN peer_stores[p].index) = 1
    /\ \E p \in DOMAIN peer_stores :
           /\ DOMAIN peer_stores[p].files = {"b"}
           /\ Cardinality(DOMAIN peer_stores[p].index) = 2

\* the peer advertises the (filename, hash) pair in its peer store
Advertises(stores, p, filename, hash) ==
    /\ p \in DOMAIN stores
    /\ filename \in DOMAIN stores[p].files
    /\ stores[p].files[filename] = hash
\* this step dispatches a round: FileSync::sync_files sends its requests
DispatchStep == sync_file_task.state = "none" /\ sync_file_task'.state = "running"

\* C39: every FileRequest of a round names a (filename, hash) pair that the
\* peer it is sent to advertises in its peer store when the round is
\* dispatched, in the round of the plan and in continuation rounds.
C39_RequestNamesAdvertisedPair ==
    [][DispatchStep =>
           \A id \in DOMAIN futs' :
               Advertises(peer_stores, futs'[id].peer, futs'[id].filename,
                          futs'[id].hash)]_vars

(***************************************************************************)
(* Connections on their own: dials, connections that open and close, and   *)
(* identify events.  A peer may hold several connections: the one the node *)
(* dialled and inbound ones, whose remote address carries no peer id.      *)
(***************************************************************************)
\* the remote addresses of the connections with peer p
Endpoints(p) == AddrsOf(p) \cup {"a0"}

NextConnections ==
    \/ \E dial_ok \in BOOLEAN : ConnectPeer(dial_ok)
    \/ \E p \in Peers : \E a \in Endpoints(p) :
           \E is_dialer \in {d \in BOOLEAN : d => a \in AddrsOf(p)} :
               ConnectionEstablished(p, a, is_dialer)
    \/ \E p \in Peers : \E a \in Endpoints(p) : ConnectionClosed(p, a)
    \/ \E p \in Peers : OutgoingConnectionError(p)
    \/ \E p \in Peers, publish_ok \in BOOLEAN :
           HandleIdentifyReceived(p, <<"a0">>, publish_ok)

SpecConnections == InitPeers /\ [][NextConnections]_vars

\* C40: every peer with at least one established connection whose
\* ConnectionEstablished event was handled is an explicit gossip peer, also
\* when the peer has several connections and one of them closes.
C40_ConnectedPeersAreExplicit ==
    \A c \in established : c[1] \in gossip_explicit
=============================================================================
